---- MODULE Spec2Model ----
(***************************************************************************)
(* Routing engine (RtrvrClient.run / RtrvrClient.scrape) and orchestration *)
(* glue (executeWithEventStream) of rtrvr-cli.                             *)
(*                                                                         *)
(* Strings are TLA+ strings; an optional value (a field that may be        *)
(* undefined) is None or Some(v).                                          *)
(***************************************************************************)
EXTENDS Integers, Sequences, FiniteSets, TLC

\* ------------------------------------------------------------------ bounds
\* largest attempt number a transport call reports
MaxAttempts == 2
\* largest number of entries in a list_devices answer
MaxDevices == 1
\* largest number of events one stream delivers
MaxEvents == 2
\* largest number of connection attempts of one stream
MaxConnects == 3
\* largest number of further calls made on one client
MaxOps == 1
\* largest retryPolicy.maxAttempts a caller passes to the HttpClient
MaxPolicyAttempts == 3
\* largest number of blocks in one event stream body
MaxBlocks == 2
\* largest number of lines in one event stream body
MaxLines == 3
\* largest attempt number a backoff delay is computed for
MaxBackoffAttempt == 4
\* largest number of entries of the devices array the hub answers
MaxEntries == 2

\* ------------------------------------------------------- optional values
None == <<>>
Some(v) == <<v>>
IsSome(o) == o # <<>>
Get(o) == o[1]
\* the ?? operator
OrElse(o, d) == IF o = <<>> THEN d ELSE o[1]

\* ------------------------------------------------------------ strings
LowerChar(c) ==
    CASE c = "C" -> "c"
      [] c = "D" -> "d"
      [] c = "N" -> "n"
      [] c = "T" -> "t"
      [] c = "U" -> "u"
      [] OTHER -> c

RECURSIVE toLowerCase(_)
toLowerCase(s) == IF Len(s) = 0 THEN "" ELSE LowerChar(Head(s)) \o toLowerCase(Tail(s))

includes(s, p) == \E i \in 1..(Len(s) - Len(p) + 1) : SubSeq(s, i, i + Len(p) - 1) = p

startsWith(s, p) == Len(s) >= Len(p) /\ SubSeq(s, 1, Len(p)) = p

\* the white space String.prototype.trim removes, among the characters modelled
IsWhiteSpace(c) == c \in { " ", "\n", "\r", "\t" }

RECURSIVE trimStart(_)
trimStart(s) == IF Len(s) > 0 /\ IsWhiteSpace(SubSeq(s, 1, 1)) THEN trimStart(Tail(s)) ELSE s

RECURSIVE trimEnd(_)
trimEnd(s) ==
    IF Len(s) > 0 /\ IsWhiteSpace(SubSeq(s, Len(s), Len(s))) THEN trimEnd(SubSeq(s, 1, Len(s) - 1)) ELSE s

trim(s) == trimEnd(trimStart(s))

\* ------------------------------------------------------------- errors
RtrvrError(message, status) == [name |-> "RtrvrError", message |-> message, status |-> status]

\* `response.success` read on an undefined response
TypeError(message) == [name |-> "TypeError", message |-> message, status |-> None]

\* isNoDeviceError with its two conjunctions read as disjunctions
isNoDeviceErrorLoose(error) ==
    LET message == toLowerCase(error.message) IN
    \/ includes(message, "no online chrome extension")
    \/ includes(message, "device") \/ includes(message, "not online")
    \/ includes(message, "device") \/ includes(message, "not found")

isNoDeviceError(error) ==
    LET message == toLowerCase(error.message) IN
    \/ includes(message, "no online chrome extension")
    \/ includes(message, "device") /\ includes(message, "not online")
    \/ includes(message, "device") /\ includes(message, "not found")

\* messages a hub answer or a failed request can carry
ServerMessages ==
    { "No online Chrome extension", "Device d1 not online", "Device not found",
      "No online devices", "Tab not found", "Unknown tool" }

\* ----------------------------------------------------------- constants
TOOL_PLANNER == "planner"
TOOL_SCRAPE == "scrape"
TOOL_LIST_DEVICES == "list_devices"
TOOL_CLOUD_AGENT == "cloud_agent"
TOOL_CLOUD_SCRAPE == "cloud_scrape"

Modes == {"auto", "cloud", "extension"}

\* ------------------------------------------------- transport outcomes
\* What one requestJson call gives its caller: a thrown RtrvrError or the
\* parsed payload after enrichPayloadMetadata.
Thrown(error) == [t |-> "throw", error |-> error, payload |-> None]
Returned(payload) == [t |-> "return", error |-> RtrvrError("", None), payload |-> payload]

TransportErrors ==
    { RtrvrError(m, s) : m \in ServerMessages, s \in {None, Some(503)} }

\* metadata object of a server payload
ServerMetadata ==
    { None }
    \cup { Some([requestId |-> None, attempt |-> None, tool |-> Some(t)]) :
             t \in {TOOL_PLANNER, TOOL_SCRAPE, TOOL_CLOUD_AGENT, TOOL_CLOUD_SCRAPE} }
    \cup { Some([requestId |-> Some("srv-req"), attempt |-> Some(7), tool |-> None]) }

\* enrichPayloadMetadata that stamps every payload as a first attempt
enrichPayloadMetadataFirstAttempt(payload, requestId, n) ==
    IF payload = None THEN payload
    ELSE LET root == Get(payload)
             metadata == OrElse(root.metadata, [requestId |-> None, attempt |-> None, tool |-> None])
             withId == IF IsSome(requestId) /\ ~IsSome(metadata.requestId)
                          THEN [metadata EXCEPT !.requestId = requestId]
                          ELSE metadata
             withAttempt == IF ~IsSome(withId.attempt)
                               THEN [withId EXCEPT !.attempt = Some(1)]
                               ELSE withId
         IN Some([root EXCEPT !.metadata = Some(withAttempt)])

enrichPayloadMetadata(payload, requestId, n) ==
    IF payload = None THEN payload
    ELSE LET root == Get(payload)
             metadata == OrElse(root.metadata, [requestId |-> None, attempt |-> None, tool |-> None])
             withId == IF IsSome(requestId) /\ ~IsSome(metadata.requestId)
                          THEN [metadata EXCEPT !.requestId = requestId]
                          ELSE metadata
             withAttempt == IF ~IsSome(withId.attempt)
                               THEN [withId EXCEPT !.attempt = Some(n)]
                               ELSE withId
         IN Some([root EXCEPT !.metadata = Some(withAttempt)])

\* payloads of the hub endpoint: {success, data?, error?, metadata?}
HubPayloads(DataSet) ==
    { None }
    \cup { Some([success |-> FALSE, data |-> None, errorMessage |-> e, metadata |-> None]) :
             e \in {None} \cup { Some(m) : m \in ServerMessages } }
    \cup { Some([success |-> TRUE, data |-> d, errorMessage |-> None, metadata |-> md]) :
             d \in {None} \cup { Some(x) : x \in DataSet }, md \in ServerMetadata }

HubOutcomes(DataSet) ==
    { Thrown(e) : e \in TransportErrors }
    \cup { Returned(enrichPayloadMetadata(p, h, a)) :
             p \in HubPayloads(DataSet), h \in {None, Some("hdr-req")}, a \in 1..MaxAttempts }

\* payloads of the cloud endpoints /agent and /scrape
CloudPayloads ==
    { None }
    \cup { Some([success |-> TRUE, data |-> Some("cloud-data"), errorMessage |-> None, metadata |-> md]) :
             md \in { None, Some([requestId |-> Some("srv-req"), attempt |-> Some(7), tool |-> None]) } }

CloudOutcomes ==
    { Thrown(e) : e \in TransportErrors }
    \cup { Returned(enrichPayloadMetadata(p, h, a)) :
             p \in CloudPayloads, h \in {None, Some("hdr-req")}, a \in 1..MaxAttempts }

\* data of a list_devices answer
DeviceIds == { "device-1" }

RECURSIVE SeqsUpTo(_, _)
SeqsUpTo(S, n) ==
    IF n = 0 THEN { <<>> }
    ELSE SeqsUpTo(S, n - 1) \cup { Append(q, x) : q \in SeqsUpTo(S, n - 1), x \in S }

DeviceListData ==
    { [online |-> o, deviceCount |-> n, devices |-> ds] :
        o \in {None, Some(TRUE), Some(FALSE)},
        n \in {None, Some(5)},
        ds \in SeqsUpTo(DeviceIds, MaxDevices) }

\* ------------------------------------------------------ client helpers
normalizeResponseMeta(value) ==
    IF value = None THEN [requestId |-> None, attempt |-> None, tool |-> None]
    ELSE [requestId |-> Get(value).requestId, attempt |-> Get(value).attempt, tool |-> Get(value).tool]

\* the payloads modelled carry requestId/attempt only inside metadata
extractResponseMeta(value) ==
    IF value = None THEN [requestId |-> None, attempt |-> None]
    ELSE LET metadata == normalizeResponseMeta(Get(value).metadata) IN
         IF IsSome(metadata.requestId) \/ IsSome(metadata.attempt)
            THEN [requestId |-> metadata.requestId, attempt |-> metadata.attempt]
            ELSE [requestId |-> None, attempt |-> None]

\* what one requestJson call answered: the requestId and attempt its payload
\* carries in metadata after enrichPayloadMetadata; nothing when it threw or
\* the body was empty
answerOf(o) ==
    IF o.t = "throw" \/ o.payload = None THEN None
    ELSE LET metadata == normalizeResponseMeta(Get(o.payload).metadata) IN
         Some([requestId |-> metadata.requestId, attempt |-> metadata.attempt])

\* hasRequestedDevice that recognises no deviceId
hasRequestedDeviceNever(deviceId) == FALSE

hasRequestedDevice(deviceId) == IsSome(deviceId) /\ Len(trim(Get(deviceId))) > 0

\* `if (request.deviceId) payload.deviceId = request.deviceId`
payloadDeviceId(deviceId) == IF IsSome(deviceId) /\ Len(Get(deviceId)) > 0 THEN deviceId ELSE None

HubCall(tool, deviceId) == [endpoint |-> "mcp", tool |-> tool, deviceId |-> payloadDeviceId(deviceId)]
CloudCall(path) == [endpoint |-> path, tool |-> "", deviceId |-> None]

NoRouted == [data |-> None, requestId |-> None, attempt |-> None, tool |-> None]

Throw(error) == [t |-> "throw", error |-> error, value |-> NoRouted]
Return(value) == [t |-> "return", error |-> RtrvrError("", None), value |-> value]

\* the part of toolRunWithMetadata after `await this.http.requestJson`
toolRunWithMetadata(outcome, tool) ==
    IF outcome.t = "throw" THEN Throw(outcome.error)
    ELSE IF outcome.payload = None
            THEN Throw(TypeError("Cannot read properties of undefined (reading 'success')"))
    ELSE LET response == Get(outcome.payload) IN
         IF ~response.success
            THEN Throw(RtrvrError(OrElse(response.errorMessage, "Tool '" \o tool \o "' failed"), None))
         ELSE LET metadata == normalizeResponseMeta(response.metadata) IN
              Return([data |-> response.data, requestId |-> metadata.requestId,
                      attempt |-> metadata.attempt, tool |-> metadata.tool])

NoDevices == [online |-> FALSE, deviceCount |-> 0, devices |-> <<>>]

normalizeDeviceList(data) ==
    IF data = None THEN NoDevices
    ELSE LET asRecord == Get(data) IN
         [online |-> OrElse(asRecord.online, FALSE),
          deviceCount |-> OrElse(asRecord.deviceCount, Len(asRecord.devices)),
          devices |-> asRecord.devices]

\* devices[0]?.deviceId
firstDeviceId(list) == IF Len(list.devices) > 0 THEN Some(list.devices[1]) ELSE None

NoScrapeRoute ==
    [data |-> None, selectedMode |-> "extension", fallbackReason |-> None,
     requestId |-> None, attempt |-> None]

\* extensionScrapeRun that does not look at the resolved tool
extensionScrapeRunNoAlias(outcome) ==
    LET r == toolRunWithMetadata(outcome, TOOL_SCRAPE) IN
    IF r.t = "throw" THEN [t |-> "throw", error |-> r.error, value |-> NoScrapeRoute]
    ELSE [t |-> "return", error |-> r.error,
          value |-> [data |-> r.value.data, selectedMode |-> "extension", fallbackReason |-> None,
                     requestId |-> r.value.requestId, attempt |-> r.value.attempt]]

\* the part of extensionScrapeRun after `await this.toolRunWithMetadata`
extensionScrapeRun(outcome) ==
    LET r == toolRunWithMetadata(outcome, TOOL_SCRAPE) IN
    IF r.t = "throw" THEN [t |-> "throw", error |-> r.error, value |-> NoScrapeRoute]
    ELSE LET routed == r.value IN
         IF routed.tool = Some(TOOL_CLOUD_SCRAPE)
            THEN [t |-> "return", error |-> r.error,
                  value |-> [data |-> routed.data, selectedMode |-> "cloud",
                             fallbackReason |-> Some("Scrape request resolved to cloud_scrape."),
                             requestId |-> routed.requestId, attempt |-> routed.attempt]]
            ELSE [t |-> "return", error |-> r.error,
                  value |-> [data |-> routed.data, selectedMode |-> "extension",
                             fallbackReason |-> None,
                             requestId |-> routed.requestId, attempt |-> routed.attempt]]

\* assertCloudApiKey that lets every supported token through
assertCloudApiKeyAnyToken(authToken) == TRUE

\* TRUE when assertCloudApiKey returns, FALSE when it throws
assertCloudApiKey(authToken) == startsWith(authToken, "rtrvr_")

CloudKeyError(operation) ==
    RtrvrError(operation \o " requires an rtrvr_ API key. mcp_at_ tokens are only supported for MCP/OAuth endpoints.",
               None)

\* ------------------------------------------------------------ results
NoMetadata ==
    [selectedMode |-> "", requestedMode |-> "", fallbackApplied |-> FALSE, fallbackReason |-> None,
     deviceId |-> None, requestId |-> None, attempt |-> None]

Result(metadata, data) ==
    Some([kind |-> "result", metadata |-> metadata, data |-> data, error |-> RtrvrError("", None)])
Failure(error) ==
    Some([kind |-> "error", metadata |-> NoMetadata, data |-> None, error |-> error])

\* =====================================================================
\* State
\* =====================================================================
VARIABLES
    client,        \* RtrvrClient fields: authToken, defaultTarget, preferExtensionByDefault
    request,       \* the request of the call in progress: op, target, deviceId,
                   \* requireLocalSession, preferExtension
    ops,           \* number of calls this client has completed
    pc,            \* where the call in progress is suspended
    calls,         \* transport requests issued by the call in progress (one entry per requestJson call)
    devices,       \* result of listDevices(), when the probe was made
    extError,      \* error thrown by the extension tool call, when it failed
    routedTool,    \* metadata.tool of the extension tool call's answer, when it succeeded
    outcome,       \* what the call gave its caller
    answered,      \* what the transport request that settled last answered: the
                   \* requestId and attempt of its payload's metadata
    mainPc,        \* executeWithEventStream: where it is suspended
    execState,     \* args.execute(): pending, or how it settled
    streamPc,      \* streamExecutionEvents: where it is suspended
    aborted,       \* streamAbortController.signal.aborted
    abortedWhilePending, \* abort() was called while execute() was pending
    streamError,   \* rejection reason of streamExecutionEvents
    streamPromise, \* streamPromise (after .catch): pending, fulfilled or rejected
    streamWarning, \* streamWarning
    delivered,     \* number of events handed to onEvent
    connects,      \* number of fetch calls made by streamExecutionEvents
    fetchedUrls,   \* the URLs streamExecutionEvents gave to fetch, in order
    responseStatus,\* status of the response to the fetch in progress, once it has arrived
    deadlinePassed,\* Date.now() >= startupDeadline
    printed,       \* warnings written by printError
    final,         \* what executeWithEventStream gave its caller
    retryPolicy,   \* HttpClient.retryPolicy: maxAttempts, retriableStatusCodes
    signal,        \* options.signal of requestJson: absent, or its aborted flag
    httpPc,        \* requestJson: where it is suspended
    attempt,       \* requestJson: local `attempt`
    sent,          \* number of fetchImpl calls made for this requestJson call
    attemptErrors, \* errors thrown by the requestOnce calls made so far
    fetchLog,      \* what the fetchImpl calls of this requestJson call settled with
    httpOutcome,   \* what requestJson gave its caller
    timedOut,      \* requestOnce: the timer of the attempt in progress has fired
                   \* (controller.signal.aborted)
    script,        \* the event stream body the server sends: its blocks, line ending and end
    source,        \* consumeEventStream: text reader.read() has yet to produce
    buffer,        \* consumeEventStream: local `buffer`
    events,        \* events handed to onEvent, in order
    ssePc,         \* consumeEventStream: where it is suspended
    fnArgs,        \* the arguments of the helper function that was called
    fnResult       \* what that call returned, once it has returned

routeVars == <<client, request, ops, pc, calls, devices, extError, routedTool, outcome, answered>>
streamVars == <<mainPc, execState, streamPc, aborted, abortedWhilePending, streamError,
                streamPromise, streamWarning, delivered, connects, fetchedUrls, responseStatus,
                deadlinePassed, printed, final>>
httpVars == <<retryPolicy, signal, httpPc, attempt, sent, attemptErrors, fetchLog, httpOutcome, timedOut>>
sseVars == <<script, source, buffer, events, ssePc>>
pureVars == <<fnArgs, fnResult>>
vars == <<client, request, ops, pc, calls, devices, extError, routedTool, outcome, answered,
          mainPc, execState, streamPc, aborted, abortedWhilePending, streamError,
          streamPromise, streamWarning, delivered, connects, fetchedUrls, responseStatus,
          deadlinePassed, printed, final,
          retryPolicy, signal, httpPc, attempt, sent, attemptErrors, fetchLog, httpOutcome,
          timedOut,
          script, source, buffer, events, ssePc, fnArgs, fnResult>>

AuthTokens == { "rtrvr_k", "mcp_at_k" }

\* request.deviceId: absent, empty, blank, or naming a device
RequestDeviceIds == { None, Some(""), Some(" "), Some("d42") }

\* profileGet() and capabilitiesGet() take no argument
ControlRequests ==
    { [op |-> o, target |-> None, deviceId |-> None, requireLocalSession |-> None,
       preferExtension |-> None] : o \in {"profileGet", "capabilitiesGet"} }

Requests ==
    ControlRequests \cup
    { [op |-> o, target |-> t, deviceId |-> d, requireLocalSession |-> r, preferExtension |-> p] :
        o \in {"run", "scrape"},
        t \in {None} \cup { Some(m) : m \in Modes },
        d \in RequestDeviceIds,
        r \in {None, Some(TRUE), Some(FALSE)},
        p \in {None, Some(TRUE)} }

\* no helper function is being followed
PureIdle == fnArgs = None /\ fnResult = None

NoExec == [state |-> "pending", value |-> "", error |-> ""]

StreamIdle ==
    /\ mainPc = "idle"
    /\ execState = NoExec
    /\ streamPc = "idle"
    /\ aborted = FALSE
    /\ abortedWhilePending = FALSE
    /\ streamError = None
    /\ streamPromise = "pending"
    /\ streamWarning = None
    /\ delivered = 0
    /\ connects = 0
    /\ fetchedUrls = <<>>
    /\ responseStatus = None
    /\ deadlinePassed = FALSE
    /\ printed = <<>>
    /\ final = None

\* no requestJson call is being followed
HttpIdle ==
    /\ retryPolicy = [maxAttempts |-> 1, baseDelayMs |-> 250, maxDelayMs |-> 4000,
                      retriableStatusCodes |-> {}]
    /\ signal = None
    /\ httpPc = "idle"
    /\ attempt = 0
    /\ sent = 0
    /\ attemptErrors = <<>>
    /\ fetchLog = <<>>
    /\ httpOutcome = None
    /\ timedOut = FALSE

\* no event stream body is being followed
SseIdle ==
    /\ script = [blocks |-> <<>>, eol |-> "\n", ending |-> "closed"]
    /\ source = ""
    /\ buffer = ""
    /\ events = <<>>
    /\ ssePc = "idle"

\* A client after construction and a request that passed the guard on
\* `input` (run) or `urls` (scrape); nothing has been sent.
Init ==
    /\ client \in { [authToken |-> a, defaultTarget |-> m, preferExtensionByDefault |-> b] :
                     a \in AuthTokens, m \in Modes, b \in BOOLEAN }
    /\ request \in Requests
    /\ pc = "start"
    /\ calls = <<>>
    /\ devices = None
    /\ extError = None
    /\ routedTool = None
    /\ outcome = None
    /\ answered = None
    /\ ops = 0
    /\ StreamIdle
    /\ HttpIdle
    /\ SseIdle
    /\ PureIdle

requestedModeOf(req, cl) == OrElse(req.target, cl.defaultTarget)
requestedMode == requestedModeOf(request, client)
\* requireLocalSession when the request flag is not read
requireLocalSessionIgnored == FALSE

requireLocalSession == OrElse(request.requireLocalSession, FALSE)
explicitDeviceSelection == hasRequestedDevice(request.deviceId)

\* ---------------------------------------------------- steps shared by run/scrape
Issue(call, nextPc) ==
    /\ calls' = Append(calls, call)
    /\ pc' = nextPc
    /\ outcome' = outcome

Finish(o) ==
    /\ pc' = "done"
    /\ outcome' = o
    /\ calls' = calls

\* agentRun / scrapeRun up to `await this.http.requestJson`
CloudRun(operation, path, nextPc) ==
    IF assertCloudApiKey(client.authToken)
       THEN Issue(CloudCall(path), nextPc)
       ELSE Finish(Failure(CloudKeyError(operation)))

\* CloudMetadata that marks every cloud result as a fallback
CloudMetadataAlwaysFallback(data, fallbackApplied, reason) ==
    LET responseMeta == extractResponseMeta(data) IN
    [selectedMode |-> "cloud", requestedMode |-> requestedMode,
     fallbackApplied |-> TRUE,
     fallbackReason |-> Some(reason),
     deviceId |-> None,
     requestId |-> responseMeta.requestId, attempt |-> responseMeta.attempt]

\* CloudMetadata that reports the requestId and attempt of the request made
\* before the cloud request (the probe, or the extension attempt that threw)
CloudMetadataOfEarlierCall(data, fallbackApplied, reason) ==
    [selectedMode |-> "cloud", requestedMode |-> requestedMode,
     fallbackApplied |-> fallbackApplied,
     fallbackReason |-> IF fallbackApplied THEN Some(reason) ELSE None,
     deviceId |-> None,
     requestId |-> IF IsSome(answered) THEN Get(answered).requestId ELSE None,
     attempt |-> IF IsSome(answered) THEN Get(answered).attempt ELSE None]

CloudMetadata(data, fallbackApplied, reason) ==
    LET responseMeta == extractResponseMeta(data) IN
    [selectedMode |-> "cloud", requestedMode |-> requestedMode,
     fallbackApplied |-> fallbackApplied,
     fallbackReason |-> IF fallbackApplied THEN Some(reason) ELSE None,
     deviceId |-> None,
     requestId |-> responseMeta.requestId, attempt |-> responseMeta.attempt]

ExtensionMetadata(routed, deviceId) ==
    [selectedMode |-> "extension", requestedMode |-> requestedMode,
     fallbackApplied |-> FALSE, fallbackReason |-> None,
     deviceId |-> deviceId,
     requestId |-> routed.requestId, attempt |-> routed.attempt]

ScrapeRoutedMetadata(routed, deviceId) ==
    [selectedMode |-> routed.selectedMode, requestedMode |-> requestedMode,
     fallbackApplied |-> routed.selectedMode # "extension",
     fallbackReason |-> routed.fallbackReason,
     deviceId |-> deviceId,
     requestId |-> routed.requestId, attempt |-> routed.attempt]

\* request.deviceId ?? devices?.devices[0]?.deviceId
resultDeviceId(list) ==
    IF IsSome(request.deviceId) THEN request.deviceId
    ELSE IF IsSome(list) THEN firstDeviceId(Get(list)) ELSE None

\* ---------------------------------------------------------------- run()
\* run() from its entry to its first transport request
RunStart ==
    /\ pc = "start"
    /\ request.op = "run"
    /\ IF requestedMode = "cloud"
          THEN CloudRun("Cloud /agent", "/agent", "run.cloud")
       ELSE IF requestedMode = "extension"
          THEN Issue(HubCall(TOOL_PLANNER, request.deviceId), "run.extension")
       ELSE IF requireLocalSession \/ explicitDeviceSelection
          THEN IF ~explicitDeviceSelection
                  THEN Issue(HubCall(TOOL_LIST_DEVICES, None), "run.hardProbe")
                  ELSE Issue(HubCall(TOOL_PLANNER, request.deviceId), "run.hardExt")
       ELSE Issue(HubCall(TOOL_LIST_DEVICES, None), "run.softProbe")
    /\ UNCHANGED <<client, request, ops, devices, extError, routedTool, answered>>
    /\ UNCHANGED <<streamVars, httpVars, sseVars, pureVars>>

\* requested mode cloud: the cloud request settles
RunCloudReturn ==
    /\ pc = "run.cloud"
    /\ \E o \in CloudOutcomes :
         /\ answered' = answerOf(o)
         /\ IF o.t = "throw"
               THEN Finish(Failure(o.error))
               ELSE Finish(Result(CloudMetadata(o.payload, FALSE, ""), o.payload))
    /\ UNCHANGED <<client, request, ops, devices, extError, routedTool>>
    /\ UNCHANGED <<streamVars, httpVars, sseVars, pureVars>>

\* requested mode extension: the extension tool call settles
RunExtensionReturn ==
    /\ pc = "run.extension"
    /\ \E o \in HubOutcomes({"ext-data"}) :
         /\ answered' = answerOf(o)
         /\ LET r == toolRunWithMetadata(o, TOOL_PLANNER) IN
            IF r.t = "throw"
               THEN /\ Finish(Failure(r.error))
                    /\ extError' = Some(r.error)
                    /\ routedTool' = routedTool
               ELSE /\ Finish(Result(ExtensionMetadata(r.value, request.deviceId), r.value.data))
                    /\ extError' = extError
                    /\ routedTool' = toolRunWithMetadata(o, TOOL_PLANNER).value.tool
    /\ UNCHANGED <<client, request, ops, devices>>
    /\ UNCHANGED <<streamVars, httpVars, sseVars, pureVars>>

\* hard local-session path: the list_devices probe settles
RunHardProbeReturn ==
    /\ pc = "run.hardProbe"
    /\ \E o \in HubOutcomes(DeviceListData) :
         /\ answered' = answerOf(o)
         /\ LET r == toolRunWithMetadata(o, TOOL_LIST_DEVICES) IN
            IF r.t = "throw"
               THEN /\ Finish(Failure(r.error))
                    /\ devices' = devices
               ELSE LET list == normalizeDeviceList(r.value.data) IN
                    /\ devices' = Some(list)
                    /\ IF ~list.online
                          THEN Finish(Failure(RtrvrError("No online extension devices found, but this run requires local browser session.", None)))
                          ELSE Issue(HubCall(TOOL_PLANNER, request.deviceId), "run.hardExt")
    /\ UNCHANGED <<client, request, ops, extError, routedTool>>
    /\ UNCHANGED <<streamVars, httpVars, sseVars, pureVars>>

\* hard local-session path: the extension tool call settles
RunHardExtReturn ==
    /\ pc = "run.hardExt"
    /\ \E o \in HubOutcomes({"ext-data"}) :
         /\ answered' = answerOf(o)
         /\ LET r == toolRunWithMetadata(o, TOOL_PLANNER) IN
            IF r.t = "throw"
               THEN /\ Finish(Failure(r.error))
                    /\ extError' = Some(r.error)
                    /\ routedTool' = routedTool
               ELSE /\ Finish(Result(ExtensionMetadata(r.value, resultDeviceId(devices)), r.value.data))
                    /\ extError' = extError
                    /\ routedTool' = toolRunWithMetadata(o, TOOL_PLANNER).value.tool
    /\ UNCHANGED <<client, request, ops, devices>>
    /\ UNCHANGED <<streamVars, httpVars, sseVars, pureVars>>

\* soft-auto path: the list_devices probe settles
RunSoftProbeReturn ==
    /\ pc = "run.softProbe"
    /\ \E o \in HubOutcomes(DeviceListData) :
         /\ answered' = answerOf(o)
         /\ LET r == toolRunWithMetadata(o, TOOL_LIST_DEVICES) IN
            IF r.t = "throw"
               THEN /\ Finish(Failure(r.error))
                    /\ devices' = devices
               ELSE LET list == normalizeDeviceList(r.value.data) IN
                    /\ devices' = Some(list)
                    /\ IF list.online
                          THEN Issue(HubCall(TOOL_PLANNER, request.deviceId), "run.softExt")
                          ELSE CloudRun("Cloud /agent", "/agent", "run.softCloud")
    /\ UNCHANGED <<client, request, ops, extError, routedTool>>
    /\ UNCHANGED <<streamVars, httpVars, sseVars, pureVars>>

\* soft-auto path: the extension tool call settles
RunSoftExtReturn ==
    /\ pc = "run.softExt"
    /\ \E o \in HubOutcomes({"ext-data"}) :
         /\ answered' = answerOf(o)
         /\ LET r == toolRunWithMetadata(o, TOOL_PLANNER) IN
            IF r.t = "throw"
               THEN /\ extError' = Some(r.error)
                    /\ routedTool' = routedTool
                    /\ IF ~isNoDeviceError(r.error)
                          THEN Finish(Failure(r.error))
                          ELSE CloudRun("Cloud /agent", "/agent", "run.softCloud")
               ELSE /\ Finish(Result(ExtensionMetadata(r.value, resultDeviceId(devices)), r.value.data))
                    /\ extError' = extError
                    /\ routedTool' = toolRunWithMetadata(o, TOOL_PLANNER).value.tool
    /\ UNCHANGED <<client, request, ops, devices>>
    /\ UNCHANGED <<streamVars, httpVars, sseVars, pureVars>>

\* soft-auto path: the cloud request (default or fallback) settles
RunSoftCloudReturn ==
    /\ pc = "run.softCloud"
    /\ \E o \in CloudOutcomes :
         /\ answered' = answerOf(o)
         /\ IF o.t = "throw"
               THEN Finish(Failure(o.error))
               ELSE Finish(Result(CloudMetadata(o.payload, Get(devices).online,
                                                "Extension device became unavailable during execution. Routed to cloud /agent."),
                                  o.payload))
    /\ UNCHANGED <<client, request, ops, devices, extError, routedTool>>
    /\ UNCHANGED <<streamVars, httpVars, sseVars, pureVars>>

\* ---------------------------------------------------------------- scrape()
\* scrape() from its entry to its first transport request
ScrapeStart ==
    /\ pc = "start"
    /\ request.op = "scrape"
    /\ IF requestedMode = "cloud"
          THEN CloudRun("Cloud /scrape", "/scrape", "scrape.cloud")
       ELSE IF requestedMode = "extension"
          THEN Issue(HubCall(TOOL_SCRAPE, request.deviceId), "scrape.extension")
       ELSE IF requireLocalSession \/ explicitDeviceSelection
          THEN IF ~explicitDeviceSelection
                  THEN Issue(HubCall(TOOL_LIST_DEVICES, None), "scrape.hardProbe")
                  ELSE Issue(HubCall(TOOL_SCRAPE, request.deviceId), "scrape.hardExt")
       ELSE Issue(HubCall(TOOL_LIST_DEVICES, None), "scrape.softProbe")
    /\ UNCHANGED <<client, request, ops, devices, extError, routedTool, answered>>
    /\ UNCHANGED <<streamVars, httpVars, sseVars, pureVars>>

\* requested mode cloud: the cloud request settles
ScrapeCloudReturn ==
    /\ pc = "scrape.cloud"
    /\ \E o \in CloudOutcomes :
         /\ answered' = answerOf(o)
         /\ IF o.t = "throw"
               THEN Finish(Failure(o.error))
               ELSE Finish(Result(CloudMetadata(o.payload, FALSE, ""), o.payload))
    /\ UNCHANGED <<client, request, ops, devices, extError, routedTool>>
    /\ UNCHANGED <<streamVars, httpVars, sseVars, pureVars>>

\* requested mode extension: the extension tool call settles
ScrapeExtensionReturn ==
    /\ pc = "scrape.extension"
    /\ \E o \in HubOutcomes({"ext-data"}) :
         /\ answered' = answerOf(o)
         /\ LET r == extensionScrapeRun(o) IN
            IF r.t = "throw"
               THEN /\ Finish(Failure(r.error))
                    /\ extError' = Some(r.error)
                    /\ routedTool' = routedTool
               ELSE /\ Finish(Result(ScrapeRoutedMetadata(r.value, request.deviceId), r.value.data))
                    /\ extError' = extError
                    /\ routedTool' = toolRunWithMetadata(o, TOOL_SCRAPE).value.tool
    /\ UNCHANGED <<client, request, ops, devices>>
    /\ UNCHANGED <<streamVars, httpVars, sseVars, pureVars>>

\* hard local-session path: the list_devices probe settles
ScrapeHardProbeReturn ==
    /\ pc = "scrape.hardProbe"
    /\ \E o \in HubOutcomes(DeviceListData) :
         /\ answered' = answerOf(o)
         /\ LET r == toolRunWithMetadata(o, TOOL_LIST_DEVICES) IN
            IF r.t = "throw"
               THEN /\ Finish(Failure(r.error))
                    /\ devices' = devices
               ELSE LET list == normalizeDeviceList(r.value.data) IN
                    /\ devices' = Some(list)
                    /\ IF ~list.online
                          THEN Finish(Failure(RtrvrError("No online extension devices found, but this scrape requires local browser session.", None)))
                          ELSE Issue(HubCall(TOOL_SCRAPE, request.deviceId), "scrape.hardExt")
    /\ UNCHANGED <<client, request, ops, extError, routedTool>>
    /\ UNCHANGED <<streamVars, httpVars, sseVars, pureVars>>

\* hard local-session path: the extension tool call settles
ScrapeHardExtReturn ==
    /\ pc = "scrape.hardExt"
    /\ \E o \in HubOutcomes({"ext-data"}) :
         /\ answered' = answerOf(o)
         /\ LET r == extensionScrapeRun(o) IN
            IF r.t = "throw"
               THEN /\ Finish(Failure(r.error))
                    /\ extError' = Some(r.error)
                    /\ routedTool' = routedTool
               ELSE /\ IF r.value.selectedMode # "extension"
                     THEN Finish(Failure(RtrvrError(
                            "Extension scrape adapter is unavailable and local browser session is required.", None)))
                     ELSE Finish(Result(ExtensionMetadata(r.value, resultDeviceId(devices)), r.value.data))
                    /\ extError' = extError
                    /\ routedTool' = toolRunWithMetadata(o, TOOL_SCRAPE).value.tool
    /\ UNCHANGED <<client, request, ops, devices>>
    /\ UNCHANGED <<streamVars, httpVars, sseVars, pureVars>>

\* soft-auto path: the list_devices probe settles
ScrapeSoftProbeReturn ==
    /\ pc = "scrape.softProbe"
    /\ \E o \in HubOutcomes(DeviceListData) :
         /\ answered' = answerOf(o)
         /\ LET r == toolRunWithMetadata(o, TOOL_LIST_DEVICES) IN
            IF r.t = "throw"
               THEN /\ Finish(Failure(r.error))
                    /\ devices' = devices
               ELSE LET list == normalizeDeviceList(r.value.data) IN
                    /\ devices' = Some(list)
                    /\ IF list.online
                          THEN Issue(HubCall(TOOL_SCRAPE, request.deviceId), "scrape.softExt")
                          ELSE CloudRun("Cloud /scrape", "/scrape", "scrape.softCloud")
    /\ UNCHANGED <<client, request, ops, extError, routedTool>>
    /\ UNCHANGED <<streamVars, httpVars, sseVars, pureVars>>

\* soft-auto path: the extension tool call settles
ScrapeSoftExtReturn ==
    /\ pc = "scrape.softExt"
    /\ \E o \in HubOutcomes({"ext-data"}) :
         /\ answered' = answerOf(o)
         /\ LET r == extensionScrapeRun(o) IN
            IF r.t = "throw"
               THEN /\ extError' = Some(r.error)
                    /\ routedTool' = routedTool
                    /\ IF ~isNoDeviceError(r.error)
                          THEN Finish(Failure(r.error))
                          ELSE CloudRun("Cloud /scrape", "/scrape", "scrape.softCloud")
               ELSE /\ Finish(Result(ScrapeRoutedMetadata(r.value, resultDeviceId(devices)), r.value.data))
                    /\ extError' = extError
                    /\ routedTool' = toolRunWithMetadata(o, TOOL_SCRAPE).value.tool
    /\ UNCHANGED <<client, request, ops, devices>>
    /\ UNCHANGED <<streamVars, httpVars, sseVars, pureVars>>

\* soft-auto path: the cloud request (default or fallback) settles
ScrapeSoftCloudReturn ==
    /\ pc = "scrape.softCloud"
    /\ \E o \in CloudOutcomes :
         /\ answered' = answerOf(o)
         /\ IF o.t = "throw"
               THEN Finish(Failure(o.error))
               ELSE Finish(Result(CloudMetadata(o.payload, Get(devices).online,
                                                "Extension device became unavailable during execution. Routed to cloud /scrape."),
                                  o.payload))
    /\ UNCHANGED <<client, request, ops, devices, extError, routedTool>>
    /\ UNCHANGED <<streamVars, httpVars, sseVars, pureVars>>

\* ------------------------------------------- profileGet() / capabilitiesGet()
\* what a call that returns the payload as it came gives its caller
Value(data) ==
    Some([kind |-> "value", metadata |-> NoMetadata, data |-> data, error |-> RtrvrError("", None)])

ProfileGetStart ==
    /\ pc = "start"
    /\ request.op = "profileGet"
    /\ CloudRun("CLI /cli/profile", "/cli/profile", "profileGet")
    /\ UNCHANGED <<client, request, ops, devices, extError, routedTool, answered>>
    /\ UNCHANGED <<streamVars, httpVars, sseVars, pureVars>>

ProfileGetReturn ==
    /\ pc = "profileGet"
    /\ \E o \in CloudOutcomes :
         /\ answered' = answerOf(o)
         /\ IF o.t = "throw" THEN Finish(Failure(o.error)) ELSE Finish(Value(o.payload))
    /\ UNCHANGED <<client, request, ops, devices, extError, routedTool>>
    /\ UNCHANGED <<streamVars, httpVars, sseVars, pureVars>>

CapabilitiesGetStart ==
    /\ pc = "start"
    /\ request.op = "capabilitiesGet"
    /\ CloudRun("CLI /cli/capabilities", "/cli/capabilities", "capabilitiesGet")
    /\ UNCHANGED <<client, request, ops, devices, extError, routedTool, answered>>
    /\ UNCHANGED <<streamVars, httpVars, sseVars, pureVars>>

CapabilitiesGetReturn ==
    /\ pc = "capabilitiesGet"
    /\ \E o \in CloudOutcomes :
         /\ answered' = answerOf(o)
         /\ IF o.t = "throw" THEN Finish(Failure(o.error)) ELSE Finish(Value(o.payload))
    /\ UNCHANGED <<client, request, ops, devices, extError, routedTool>>
    /\ UNCHANGED <<streamVars, httpVars, sseVars, pureVars>>

\* The caller has taken the outcome of the call; no call is in progress.
CallSettled ==
    /\ pc = "done"
    /\ ops < MaxOps
    /\ ops' = ops + 1
    /\ pc' = "idle"
    /\ calls' = <<>>
    /\ devices' = None
    /\ extError' = None
    /\ routedTool' = None
    /\ outcome' = None
    /\ answered' = None
    /\ UNCHANGED <<client, request>>
    /\ UNCHANGED <<streamVars, httpVars, sseVars, pureVars>>

\* The caller makes its next call on the same client.  The client's fields
\* are readonly, so the call starts from what the constructor left.
NextCall ==
    /\ pc = "idle"
    /\ request' \in Requests
    /\ pc' = "start"
    /\ UNCHANGED <<client, ops, calls, devices, extError, routedTool, outcome, answered>>
    /\ UNCHANGED <<streamVars, httpVars, sseVars, pureVars>>

Next ==
    \/ ProfileGetStart
    \/ ProfileGetReturn
    \/ CapabilitiesGetStart
    \/ CapabilitiesGetReturn
    \/ CallSettled
    \/ NextCall
    \/ RunStart
    \/ RunCloudReturn
    \/ RunExtensionReturn
    \/ RunHardProbeReturn
    \/ RunHardExtReturn
    \/ RunSoftProbeReturn
    \/ RunSoftExtReturn
    \/ RunSoftCloudReturn
    \/ ScrapeStart
    \/ ScrapeCloudReturn
    \/ ScrapeExtensionReturn
    \/ ScrapeHardProbeReturn
    \/ ScrapeHardExtReturn
    \/ ScrapeSoftProbeReturn
    \/ ScrapeSoftExtReturn
    \/ ScrapeSoftCloudReturn

Spec == Init /\ [][Next]_vars

\* =====================================================================
\* executeWithEventStream and the stream consumer it runs beside execute()
\* =====================================================================
ExecValues == { "value-1", "value-2" }
ExecErrors == { "exec-error-1", "exec-error-2" }
NotReadyStatuses == { 404, 425, 409 }
ResponseStatuses == { 200, 404, 425, 409, 500 }

RouteIdle ==
    /\ client = [authToken |-> "rtrvr_k", defaultTarget |-> "auto", preferExtensionByDefault |-> FALSE]
    /\ request = [op |-> "run", target |-> None, deviceId |-> None, requireLocalSession |-> None,
                  preferExtension |-> None]
    /\ ops = 0
    /\ pc = "idle"
    /\ calls = <<>>
    /\ devices = None
    /\ extError = None
    /\ routedTool = None
    /\ outcome = None
    /\ answered = None

InitStream ==
    /\ RouteIdle
    /\ HttpIdle
    /\ SseIdle
    /\ PureIdle
    /\ mainPc = "start"
    /\ execState = NoExec
    /\ streamPc = "idle"
    /\ aborted = FALSE
    /\ abortedWhilePending = FALSE
    /\ streamError = None
    /\ streamPromise = "pending"
    /\ streamWarning = None
    /\ delivered = 0
    /\ connects = 0
    /\ fetchedUrls = <<>>
    /\ responseStatus = None
    /\ deadlinePassed = FALSE
    /\ printed = <<>>
    /\ final = None

toErrorMessage(error) == error

\* `return args.execute()` without await: the finally block does not wait
awaitExecuteMissing(exec) == TRUE

\* `await args.execute()`: TRUE when execute() has settled and the function goes on
awaitExecute(exec) == exec.state # "pending"

\* a .catch handler that records the warning whatever the signal says
streamCatchAlwaysWarns(error, signalAborted) ==
    [promise |-> "fulfilled", warning |-> Some(toErrorMessage(error))]

\* a .catch handler whose promise never settles
streamCatchNeverSettles(error, signalAborted) == [promise |-> "pending", warning |-> None]

\* the stream promise without a .catch handler: the rejection stays
streamCatchMissing(error, signalAborted) == [promise |-> "rejected", warning |-> None]

\* the handler given to .catch on the promise of streamExecutionEvents
streamCatch(error, signalAborted) ==
    IF signalAborted
       THEN [promise |-> "fulfilled", warning |-> None]
       ELSE [promise |-> "fulfilled", warning |-> Some(toErrorMessage(error))]

\* streamExecutionEvents returns: its promise, and the one derived by .catch, fulfil
StreamReturns ==
    /\ streamPc' = "returned"
    /\ streamPromise' = "fulfilled"
    /\ streamError' = streamError

\* streamExecutionEvents throws: its promise rejects, the .catch handler is queued
StreamThrows(error) ==
    /\ streamPc' = "rejected"
    /\ streamError' = Some(error)
    /\ streamPromise' = streamPromise

StreamAwaits(position) ==
    /\ streamPc' = position
    /\ streamError' = streamError
    /\ streamPromise' = streamPromise

\* encodeURIComponent, for the characters the identifiers modelled hold
encodeURIComponent(str) ==
    LET encodeChar(c) == IF c = " " THEN "%20" ELSE IF c = "/" THEN "%2F" ELSE c
        F[i \in 0..Len(str)] == IF i = 0 THEN "" ELSE F[i - 1] \o encodeChar(SubSeq(str, i, i))
    IN F[Len(str)]

buildEventsUrl(baseUrl, trajectoryId, phase, since, includeOutput) ==
    LET normalized == IF Len(baseUrl) > 0 /\ SubSeq(baseUrl, Len(baseUrl), Len(baseUrl)) = "/"
                         THEN SubSeq(baseUrl, 1, Len(baseUrl) - 1)
                         ELSE baseUrl
    IN normalized \o "/cli/executions/" \o encodeURIComponent(trajectoryId) \o "/events"
       \o "?phase=" \o ToString(phase) \o "&since=" \o ToString(since)
       \o (IF includeOutput THEN "&includeOutput=1" ELSE "")

\* the options executeWithEventStream calls streamExecutionEvents with
StreamOptions ==
    [baseUrl |-> "https://api/", trajectoryId |-> "t 1", phase |-> Some(2), since |-> None,
     includeOutput |-> TRUE]

\* `url` of streamExecutionEvents, computed once before its loop
url ==
    buildEventsUrl(StreamOptions.baseUrl, StreamOptions.trajectoryId,
                   OrElse(StreamOptions.phase, 1), OrElse(StreamOptions.since, 0),
                   StreamOptions.includeOutput)

\* streamExecutionEvents that waits and connects again when the body is over
consumeReturnsThenReconnects == StreamAwaits("sleep")

\* consumeEventStream returns, and streamExecutionEvents with it:
\* `await consumeEventStream(...); return;`
consumeReturns == StreamReturns

\* top of the loop of consumeEventStream
consumeLoop == IF aborted THEN consumeReturns ELSE StreamAwaits("read")

\* top of the loop of streamExecutionEvents
connectLoop ==
    IF aborted
       THEN StreamReturns /\ UNCHANGED <<connects, fetchedUrls, responseStatus>>
       ELSE /\ StreamAwaits("fetch")
            /\ connects' = connects + 1
            /\ fetchedUrls' = Append(fetchedUrls, url)
            /\ responseStatus' = None

\* executeWithEventStream up to `await args.execute()`: the stream consumer is
\* started (it runs to its first fetch) and execute() is called
ExecStart ==
    /\ mainPc = "start"
    /\ mainPc' = "awaitExecute"
    /\ connectLoop
    /\ UNCHANGED <<execState, aborted, abortedWhilePending, streamWarning, delivered,
                   deadlinePassed, printed, final>>
    /\ UNCHANGED <<routeVars, httpVars, sseVars, pureVars>>

\* execute() resolves or rejects
ExecuteSettles ==
    /\ mainPc = "awaitExecute"
    /\ execState.state = "pending"
    /\ \/ \E v \in ExecValues : execState' = [state |-> "resolved", value |-> v, error |-> ""]
       \/ \E e \in ExecErrors : execState' = [state |-> "rejected", value |-> "", error |-> e]
    /\ UNCHANGED <<mainPc, streamPc, aborted, abortedWhilePending, streamError, streamPromise,
                   streamWarning, delivered, deadlinePassed, printed, final>>
    /\ UNCHANGED <<connects, fetchedUrls, responseStatus>>
    /\ UNCHANGED <<routeVars, httpVars, sseVars, pureVars>>

\* the finally block up to `await streamPromise`
ExecFinally ==
    /\ mainPc = "awaitExecute"
    /\ awaitExecute(execState)
    /\ aborted' = TRUE
    /\ abortedWhilePending' = (abortedWhilePending \/ execState.state = "pending")
    /\ mainPc' = "awaitStream"
    /\ UNCHANGED <<execState, streamPc, streamError, streamPromise, streamWarning, delivered,
                   deadlinePassed, printed, final>>
    /\ UNCHANGED <<connects, fetchedUrls, responseStatus>>
    /\ UNCHANGED <<routeVars, httpVars, sseVars, pureVars>>

ExecOutcome ==
    IF execState.state = "resolved"
       THEN Some([kind |-> "return", value |-> execState.value])
       ELSE Some([kind |-> "throw", value |-> execState.error])

\* the finally block after `await streamPromise`, and the return or rethrow
ExecResume ==
    /\ mainPc = "awaitStream"
    /\ streamPromise # "pending"
    /\ mainPc' = "done"
    /\ IF streamPromise = "rejected"
          THEN /\ final' = Some([kind |-> "throw", value |-> Get(streamError)])
               /\ printed' = printed
          ELSE /\ final' = ExecOutcome
               /\ printed' = IF IsSome(streamWarning) THEN Append(printed, Get(streamWarning)) ELSE printed
    /\ UNCHANGED <<execState, streamPc, aborted, abortedWhilePending, streamError, streamPromise,
                   streamWarning, delivered, deadlinePassed>>
    /\ UNCHANGED <<connects, fetchedUrls, responseStatus>>
    /\ UNCHANGED <<routeVars, httpVars, sseVars, pureVars>>

\* the .catch handler runs
StreamCatch ==
    /\ streamPc = "rejected"
    /\ streamPromise = "pending"
    /\ LET h == streamCatch(Get(streamError), aborted) IN
       /\ streamPromise' = h.promise
       /\ streamWarning' = h.warning
    /\ streamPc' = "handled"
    /\ UNCHANGED <<mainPc, execState, aborted, abortedWhilePending, streamError, delivered,
                   deadlinePassed, printed, final>>
    /\ UNCHANGED <<connects, fetchedUrls, responseStatus>>
    /\ UNCHANGED <<routeVars, httpVars, sseVars, pureVars>>

\* the not-ready test that goes on reconnecting after the startup deadline
notReadyYetNoDeadline(status, pastDeadline) == status \in NotReadyStatuses

\* `(status === 404 || status === 425 || status === 409) && Date.now() < startupDeadline`
notReadyYet(status, pastDeadline) == status \in NotReadyStatuses /\ ~pastDeadline

\* fetch resolves with a response (also one that arrived just before the abort)
FetchResolves ==
    /\ streamPc = "fetch"
    /\ \E status \in ResponseStatuses, hasBody \in BOOLEAN :
         /\ responseStatus' = Some(status)
         /\ IF status # 200
               THEN IF notReadyYet(status, deadlinePassed)
                       THEN StreamAwaits("sleep")
                       ELSE StreamAwaits("errText")
            ELSE IF ~hasBody
               THEN StreamThrows("Event stream response did not include a readable body.")
            ELSE consumeLoop
    /\ UNCHANGED <<mainPc, execState, aborted, abortedWhilePending, streamWarning, delivered,
                   deadlinePassed, printed, final>>
    /\ UNCHANGED <<connects, fetchedUrls>>
    /\ UNCHANGED <<routeVars, httpVars, sseVars, pureVars>>

\* fetch rejects: the network failed, or the signal was aborted
FetchRejects ==
    /\ streamPc = "fetch"
    /\ \/ StreamThrows("fetch failed")
       \/ aborted /\ StreamThrows("This operation was aborted")
    /\ UNCHANGED <<mainPc, execState, aborted, abortedWhilePending, streamWarning, delivered,
                   deadlinePassed, printed, final>>
    /\ UNCHANGED <<connects, fetchedUrls, responseStatus>>
    /\ UNCHANGED <<routeVars, httpVars, sseVars, pureVars>>

\* sleep(600) ends and the loop goes round: it returns when the signal is
\* aborted and reconnects otherwise
SleepDone ==
    /\ streamPc = "sleep"
    /\ aborted \/ connects < MaxConnects
    /\ connectLoop
    /\ UNCHANGED <<mainPc, execState, aborted, abortedWhilePending, streamWarning, delivered,
                   deadlinePassed, printed, final>>
    /\ UNCHANGED <<routeVars, httpVars, sseVars, pureVars>>

\* response.text() of a failed response settles and the failure is thrown
ErrTextDone ==
    /\ streamPc = "errText"
    /\ \/ StreamThrows("Event stream failed")
       \/ StreamThrows("terminated")
       \/ aborted /\ StreamThrows("This operation was aborted")
    /\ UNCHANGED <<mainPc, execState, aborted, abortedWhilePending, streamWarning, delivered,
                   deadlinePassed, printed, final>>
    /\ UNCHANGED <<connects, fetchedUrls, responseStatus>>
    /\ UNCHANGED <<routeVars, httpVars, sseVars, pureVars>>

\* reader.read() gives a chunk holding k complete events (also a chunk read
\* just before the abort); onEvent may throw on one of them
ReadChunk ==
    /\ streamPc = "read"
    /\ \E k \in 0..(MaxEvents - delivered), onEventThrows \in BOOLEAN :
         /\ onEventThrows => k > 0
         /\ delivered' = delivered + k
         /\ IF onEventThrows THEN StreamThrows("onEvent failed") ELSE consumeLoop
    /\ UNCHANGED <<mainPc, execState, aborted, abortedWhilePending, streamWarning,
                   deadlinePassed, printed, final>>
    /\ UNCHANGED <<connects, fetchedUrls, responseStatus>>
    /\ UNCHANGED <<routeVars, httpVars, sseVars, pureVars>>

\* reader.read() reports the end of the body; the rest of the buffer is flushed
ReadDone ==
    /\ streamPc = "read"
    /\ \E k \in 0..(MaxEvents - delivered), onEventThrows \in BOOLEAN :
         /\ onEventThrows => k > 0
         /\ delivered' = delivered + k
         /\ IF onEventThrows THEN StreamThrows("onEvent failed") ELSE consumeReturns
    /\ UNCHANGED <<mainPc, execState, aborted, abortedWhilePending, streamWarning,
                   deadlinePassed, printed, final>>
    /\ UNCHANGED <<connects, fetchedUrls, responseStatus>>
    /\ UNCHANGED <<routeVars, httpVars, sseVars, pureVars>>

\* reader.read() rejects: the connection broke, or the signal was aborted
ReadRejects ==
    /\ streamPc = "read"
    /\ \/ StreamThrows("terminated")
       \/ aborted /\ StreamThrows("This operation was aborted")
    /\ UNCHANGED <<mainPc, execState, aborted, abortedWhilePending, streamWarning, delivered,
                   deadlinePassed, printed, final>>
    /\ UNCHANGED <<connects, fetchedUrls, responseStatus>>
    /\ UNCHANGED <<routeVars, httpVars, sseVars, pureVars>>

\* the startup grace window elapses
DeadlinePasses ==
    /\ mainPc # "start"
    /\ ~deadlinePassed
    /\ deadlinePassed' = TRUE
    /\ UNCHANGED <<mainPc, execState, streamPc, aborted, abortedWhilePending, streamError,
                   streamPromise, streamWarning, delivered, printed, final>>
    /\ UNCHANGED <<connects, fetchedUrls, responseStatus>>
    /\ UNCHANGED <<routeVars, httpVars, sseVars, pureVars>>

NextStream ==
    \/ ExecStart
    \/ ExecuteSettles
    \/ ExecFinally
    \/ ExecResume
    \/ StreamCatch
    \/ FetchResolves
    \/ FetchRejects
    \/ SleepDone
    \/ ErrTextDone
    \/ ReadChunk
    \/ ReadDone
    \/ ReadRejects
    \/ DeadlinePasses

SpecStream == InitStream /\ [][NextStream]_vars

\* Scheduling: a continuation whose promise has settled runs, a timer
\* fires, and a fetch, a body read or response.text() on an aborted
\* signal settles.  Without the abort the server may keep any of them
\* pending for ever, and execute() itself need not settle.
FairnessStream ==
    /\ WF_vars(ExecFinally)
    /\ WF_vars(ExecResume)
    /\ WF_vars(StreamCatch)
    /\ WF_vars(SleepDone)
    /\ WF_vars(aborted /\ (FetchResolves \/ FetchRejects))
    /\ WF_vars(aborted /\ ErrTextDone)
    /\ WF_vars(aborted /\ (ReadChunk \/ ReadDone \/ ReadRejects))

SpecStreamLive == SpecStream /\ FairnessStream

\* =====================================================================
\* Properties
\* =====================================================================
\* =====================================================================
\* HttpClient.requestJson: the retry loop around requestOnce
\* =====================================================================
Max(a, b) == IF a >= b THEN a ELSE b
Min(a, b) == IF a <= b THEN a ELSE b

DEFAULT_RETRIABLE_STATUS_CODES == { 408, 425, 429, 500, 502, 503, 504 }

\* options.retryPolicy as the caller passes it to the client whose requests are
\* followed (the delays are left to their defaults there)
RetryPolicies ==
    { [maxAttempts |-> m, baseDelayMs |-> None, maxDelayMs |-> None, retriableStatusCodes |-> c] :
        m \in {None} \cup { Some(n) : n \in 0..MaxPolicyAttempts },
        c \in { None, Some({}), Some({503}), Some({404, 429}) } }

\* the policy fields are integers, so Math.floor leaves them as they are
normalizeRetryPolicy(policy) ==
    LET maxAttempts == Max(1, Min(10, OrElse(policy.maxAttempts, 1)))
        baseDelayMs == Max(25, OrElse(policy.baseDelayMs, 250))
        maxDelayMs  == Max(baseDelayMs, OrElse(policy.maxDelayMs, 4000))
    IN  [maxAttempts |-> maxAttempts,
         baseDelayMs |-> baseDelayMs,
         maxDelayMs  |-> maxDelayMs,
         retriableStatusCodes |->
            IF IsSome(policy.retriableStatusCodes) /\ Cardinality(Get(policy.retriableStatusCodes)) > 0
               THEN Get(policy.retriableStatusCodes)
               ELSE DEFAULT_RETRIABLE_STATUS_CODES]

\* new RtrvrError(message, { status, requestId, details })
RtrvrErrorWith(message, status, requestId, details) ==
    [name |-> "RtrvrError", message |-> message, status |-> status,
     requestId |-> requestId, details |-> details]

\* shouldRetry that retries whatever the status is
shouldRetryAnyStatus(error, n, policy, sig) ==
    IF n >= policy.maxAttempts THEN FALSE
    ELSE IF IsSome(sig) /\ Get(sig) THEN FALSE
    ELSE TRUE

shouldRetry(error, n, policy, sig) ==
    IF n >= policy.maxAttempts THEN FALSE
    ELSE IF IsSome(sig) /\ Get(sig) THEN FALSE
    ELSE IF error.status = None THEN TRUE
    ELSE Get(error.status) \in policy.retriableStatusCodes

\* the payloads modelled carry their message in error.message
extractErrorMessage(payload) == IF payload = None THEN None ELSE Get(payload).errorMessage

\* bodies of a 2xx response, parsed: empty, or a JSON object
OkBodies ==
    { None,
      Some([success |-> TRUE, data |-> Some("data"), errorMessage |-> None, metadata |-> None]),
      Some([success |-> TRUE, data |-> Some("data"), errorMessage |-> None,
            metadata |-> Some([requestId |-> Some("srv-req"), attempt |-> Some(7), tool |-> None])]) }

\* bodies of a non-2xx response, parsed
ErrorBodies ==
    { None,
      Some([success |-> FALSE, data |-> None, errorMessage |-> Some("Rate limited"), metadata |-> None]) }

\* what one fetchImpl call gives requestOnce
FetchOutcomes ==
    { [t |-> "reject", message |-> m, status |-> 0, requestId |-> None, body |-> None] :
        m \in { "fetch failed", "Request timed out", "This operation was aborted" } }
    \cup { [t |-> "response", message |-> "", status |-> 200, requestId |-> h, body |-> b] :
             h \in { None, Some("hdr-req") }, b \in OkBodies }
    \cup { [t |-> "response", message |-> "", status |-> st, requestId |-> h, body |-> b] :
             st \in { 404, 429, 503 }, h \in { None, Some("hdr-req") }, b \in ErrorBodies }

\* `options.signal ?? controller.signal`: TRUE when the signal requestOnce
\* hands to fetchImpl is aborted
fetchSignalAborted == IF IsSome(signal) THEN Get(signal) ELSE timedOut

\* fetchImpl rejects with the reason of its signal only when that signal is
\* aborted: the timer's error, or the abort error of the caller's signal
fetchCanGive(fetched) ==
    /\ fetched.message = "Request timed out" => (signal = None /\ timedOut)
    /\ fetched.message = "This operation was aborted" => (IsSome(signal) /\ Get(signal))

\* requestOnce from the moment fetchImpl settles
requestOnce(fetched, n) ==
    IF fetched.t = "reject"
       THEN Thrown(RtrvrErrorWith(fetched.message, None, None, None))
    ELSE IF ~(fetched.status >= 200 /\ fetched.status <= 299)
       THEN Thrown(RtrvrErrorWith(OrElse(extractErrorMessage(fetched.body), "HTTP " \o ToString(fetched.status)),
                                  Some(fetched.status), fetched.requestId, fetched.body))
    ELSE Returned(enrichPayloadMetadata(fetched.body, fetched.requestId, n))

RETRIES_EXHAUSTED == RtrvrErrorWith("Request failed after retries were exhausted.", None, None, None)

\* the catch block that gives up with the generic error once the attempts are used up
requestJsonCatchGeneric(error, n, policy, sig) ==
    IF shouldRetry(error, n, policy, sig)
       THEN [retry |-> TRUE, thrown |-> error]
       ELSE [retry |-> FALSE, thrown |-> IF n >= policy.maxAttempts THEN RETRIES_EXHAUSTED ELSE error]

\* the catch block of requestJson; requestOnce throws RtrvrError only
requestJsonCatch(error, n, policy, sig) ==
    IF shouldRetry(error, n, policy, sig)
       THEN [retry |-> TRUE, thrown |-> error]
       ELSE [retry |-> FALSE, thrown |-> error]

InitHttp ==
    /\ RouteIdle
    /\ StreamIdle
    /\ SseIdle
    /\ PureIdle
    /\ retryPolicy \in { normalizeRetryPolicy(p) : p \in RetryPolicies }
    /\ signal \in { None, Some(FALSE), Some(TRUE) }
    /\ httpPc = "start"
    /\ attempt = 0
    /\ sent = 0
    /\ attemptErrors = <<>>
    /\ fetchLog = <<>>
    /\ httpOutcome = None
    /\ timedOut = FALSE

\* the head of the while loop of requestJson, up to `await this.requestOnce`
requestJsonLoop ==
    IF attempt < retryPolicy.maxAttempts
       THEN /\ attempt' = attempt + 1
            /\ sent' = sent + 1
            /\ httpPc' = "requestOnce"
            /\ httpOutcome' = httpOutcome
            /\ timedOut' = FALSE
       ELSE /\ httpOutcome' = Some(Thrown(RETRIES_EXHAUSTED))
            /\ httpPc' = "done"
            /\ UNCHANGED <<attempt, sent, timedOut>>

RequestJsonStart ==
    /\ httpPc = "start"
    /\ requestJsonLoop
    /\ UNCHANGED <<retryPolicy, signal, attemptErrors, fetchLog>>
    /\ UNCHANGED <<routeVars, streamVars, sseVars, pureVars>>

\* requestOnce settles: return, rethrow, or start the backoff sleep
RequestOnceSettles ==
    /\ httpPc = "requestOnce"
    /\ \E fetched \in FetchOutcomes :
         LET r == requestOnce(fetched, attempt) IN
         /\ fetchCanGive(fetched)
         /\ fetchLog' = Append(fetchLog, fetched)
         /\ IF r.t = "return"
               THEN /\ httpOutcome' = Some(r)
                    /\ httpPc' = "done"
                    /\ attemptErrors' = attemptErrors
               ELSE LET c == requestJsonCatch(r.error, attempt, retryPolicy, signal) IN
                    /\ attemptErrors' = Append(attemptErrors, r.error)
                    /\ IF c.retry
                          THEN httpPc' = "sleep" /\ httpOutcome' = httpOutcome
                          ELSE httpPc' = "done" /\ httpOutcome' = Some(Thrown(c.thrown))
    /\ UNCHANGED <<retryPolicy, signal, attempt, sent, timedOut>>
    /\ UNCHANGED <<routeVars, streamVars, sseVars, pureVars>>

\* the backoff sleep ends and the loop goes round
BackoffDone ==
    /\ httpPc = "sleep"
    /\ requestJsonLoop
    /\ UNCHANGED <<retryPolicy, signal, attemptErrors, fetchLog>>
    /\ UNCHANGED <<routeVars, streamVars, sseVars, pureVars>>

\* the caller aborts options.signal
SignalAborts ==
    /\ signal = Some(FALSE)
    /\ httpPc \in { "requestOnce", "sleep" }
    /\ signal' = Some(TRUE)
    /\ UNCHANGED <<retryPolicy, httpPc, attempt, sent, attemptErrors, fetchLog, httpOutcome,
                   timedOut>>
    /\ UNCHANGED <<routeVars, streamVars, sseVars, pureVars>>

\* timeoutMs after requestOnce began the timer fires: controller.abort(new Error('Request timed out'))
TimeoutFires ==
    /\ httpPc = "requestOnce"
    /\ ~timedOut
    /\ timedOut' = TRUE
    /\ UNCHANGED <<retryPolicy, signal, httpPc, attempt, sent, attemptErrors, fetchLog, httpOutcome>>
    /\ UNCHANGED <<routeVars, streamVars, sseVars, pureVars>>

NextHttp ==
    \/ RequestJsonStart
    \/ RequestOnceSettles
    \/ BackoffDone
    \/ SignalAborts
    \/ TimeoutFires

SpecHttp == InitHttp /\ [][NextHttp]_vars

\* =====================================================================
\* consumeEventStream, flushBuffer and parseEventChunk
\* =====================================================================
\* String.prototype.indexOf, slice, split, replace and Array.prototype.join
RECURSIVE indexOfFrom(_, _, _)
indexOfFrom(s, p, i) ==
    IF i + Len(p) - 1 > Len(s) THEN -1
    ELSE IF SubSeq(s, i, i + Len(p) - 1) = p THEN i - 1
    ELSE indexOfFrom(s, p, i + 1)

indexOf(s, p) == indexOfFrom(s, p, 1)
slice(s, a, b) == SubSeq(s, a + 1, b)
sliceFrom(s, a) == SubSeq(s, a + 1, Len(s))

RECURSIVE split(_, _)
split(s, sep) ==
    LET i == indexOf(s, sep) IN
    IF i = -1 THEN << s >> ELSE << slice(s, 0, i) >> \o split(sliceFrom(s, i + Len(sep)), sep)

\* input.replace(/\r\n/g, '\n')
RECURSIVE replaceCrLf(_)
replaceCrLf(s) ==
    LET i == indexOf(s, "\r\n") IN
    IF i = -1 THEN s ELSE slice(s, 0, i) \o "\n" \o replaceCrLf(sliceFrom(s, i + 2))

RECURSIVE join(_, _)
join(parts, sep) ==
    IF Len(parts) = 0 THEN ""
    ELSE IF Len(parts) = 1 THEN parts[1]
    ELSE parts[1] \o sep \o join(Tail(parts), sep)

\* JSON.parse on the payloads modelled: a run of digits is a number,
\* anything else throws and the raw string is kept
jsonParse(raw) ==
    IF Len(raw) > 0 /\ \A i \in 1..Len(raw) : SubSeq(raw, i, i) \in { "1", "7" }
       THEN << "number", raw >>
       ELSE << "string", raw >>

\* a field value read without dropping the space after the colon
stripLeadingSpaceNever(value) == value

\* `if (value.startsWith(' ')) value = value.slice(1)`
stripLeadingSpace(value) == IF startsWith(value, " ") THEN sliceFrom(value, 1) ELSE value

\* the body of the for loop of parseEventChunk, over the lines left
RECURSIVE parseLines(_, _)
parseLines(lines, acc) ==
    IF Len(lines) = 0 THEN acc
    ELSE LET line == Head(lines)
             separator == indexOf(line, ":")
             field == slice(line, 0, separator)
             value == stripLeadingSpace(sliceFrom(line, separator + 1))
         IN IF Len(line) = 0 \/ startsWith(line, ":") THEN parseLines(Tail(lines), acc)
            ELSE IF separator = -1 THEN parseLines(Tail(lines), acc)
            ELSE IF field = "event"
               THEN parseLines(Tail(lines), [acc EXCEPT !.eventName = IF Len(value) > 0 THEN value ELSE "message"])
            ELSE IF field = "id"
               THEN parseLines(Tail(lines), [acc EXCEPT !.id = Some(value)])
            ELSE IF field = "data"
               THEN parseLines(Tail(lines), [acc EXCEPT !.dataLines = Append(acc.dataLines, value)])
            ELSE parseLines(Tail(lines), acc)

\* None for null, Some(event) otherwise
parseEventChunk(chunk) ==
    IF Len(trim(chunk)) = 0 THEN None
    ELSE LET acc == parseLines(split(chunk, "\n"), [eventName |-> "message", id |-> None, dataLines |-> <<>>]) IN
         IF Len(acc.dataLines) = 0 THEN None
         ELSE LET raw == join(acc.dataLines, "\n") IN
              Some([id |-> acc.id, event |-> acc.eventName, data |-> jsonParse(raw), raw |-> raw])

RECURSIVE flushLoopOneEvent(_, _)
\* the loop of flushBuffer leaving after the first event: the events behind
\* it wait in the buffer for the next chunk
flushLoopOneEvent(remaining, delivered_) ==
    LET boundary == indexOf(remaining, "\n\n") IN
    IF boundary = -1 \/ Len(delivered_) > 0 THEN [remaining |-> remaining, events |-> delivered_]
    ELSE LET rawChunk == slice(remaining, 0, boundary)
             event == parseEventChunk(rawChunk)
         IN flushLoopOneEvent(sliceFrom(remaining, boundary + 2),
                              IF IsSome(event) THEN Append(delivered_, Get(event)) ELSE delivered_)

\* the while loop of flushBuffer; `delivered_` are the events given to onEvent
RECURSIVE flushLoop(_, _)
flushLoop(remaining, delivered_) ==
    LET boundary == indexOf(remaining, "\n\n") IN
    IF boundary = -1 THEN [remaining |-> remaining, events |-> delivered_]
    ELSE LET rawChunk == slice(remaining, 0, boundary)
             event == parseEventChunk(rawChunk)
         IN flushLoop(sliceFrom(remaining, boundary + 2),
                      IF IsSome(event) THEN Append(delivered_, Get(event)) ELSE delivered_)

flushBuffer(input) == flushLoop(replaceCrLf(input), <<>>)

\* ---- the body the server sends
\* one line of a block: a comment, or a field with its value
StreamLines ==
    { [field |-> "", value |-> "c", space |-> FALSE],
      [field |-> "event", value |-> "e", space |-> TRUE],
      [field |-> "id", value |-> "7", space |-> FALSE],
      [field |-> "data", value |-> "x", space |-> FALSE],
      [field |-> "data", value |-> "1", space |-> TRUE] }

\* a body is a sequence of blocks; every block but the last is closed by a
\* blank line, the last one is closed by a blank line ("closed"), ends with
\* its last line's line ending ("newline") or ends with its last line ("none")
\* the sequences of at most b blocks that hold at most n lines together
RECURSIVE Bodies(_, _)
Bodies(b, n) ==
    IF b = 0 THEN { <<>> }
    ELSE { <<>> } \cup
         UNION { { << block >> \o rest : rest \in Bodies(b - 1, n - Len(block)) } :
                   block \in SeqsUpTo(StreamLines, n) }

Scripts ==
    { [blocks |-> bs, eol |-> e, ending |-> x] :
        bs \in Bodies(MaxBlocks, MaxLines),
        e \in { "\n", "\r\n" },
        x \in { "closed", "newline", "none" } }

\* the text of one line
lineText(l) ==
    IF l.field = "" THEN ":" \o l.value
    ELSE l.field \o ":" \o (IF l.space THEN " " ELSE "") \o l.value

RECURSIVE blockText(_, _)
blockText(block, eol) ==
    IF Len(block) = 0 THEN ""
    ELSE IF Len(block) = 1 THEN lineText(block[1])
    ELSE lineText(block[1]) \o eol \o blockText(Tail(block), eol)

RECURSIVE bodyText(_, _, _)
bodyText(blocks, eol, ending) ==
    IF Len(blocks) = 0 THEN ""
    ELSE IF Len(blocks) = 1
       THEN blockText(blocks[1], eol) \o
            (IF ending = "closed" THEN eol \o eol ELSE IF ending = "newline" THEN eol ELSE "")
    ELSE blockText(blocks[1], eol) \o eol \o eol \o bodyText(Tail(blocks), eol, ending)

\* lengths of the chunk reader.read() may produce from text of length n
ChunkLengths(n) == { k \in { 1, 2, 4, n } : k >= 1 /\ k <= n }

InitSse ==
    /\ RouteIdle
    /\ StreamIdle
    /\ HttpIdle
    /\ PureIdle
    /\ script \in Scripts
    /\ source = bodyText(script.blocks, script.eol, script.ending)
    /\ buffer = ""
    /\ events = <<>>
    /\ ssePc = "read"

\* reader.read() gives a chunk: it is decoded, appended and flushed, and
\* the loop goes round (the signal of this call is not aborted)
SseReadChunk ==
    /\ ssePc = "read"
    /\ ~aborted
    /\ \E k \in ChunkLengths(Len(source)) :
         LET flushed == flushBuffer(buffer \o SubSeq(source, 1, k)) IN
         /\ source' = SubSeq(source, k + 1, Len(source))
         /\ buffer' = flushed.remaining
         /\ events' = events \o flushed.events
    /\ UNCHANGED <<script, ssePc>>
    /\ UNCHANGED <<routeVars, streamVars, httpVars, pureVars>>

\* reader.read() reports done: the loop breaks and the buffer is flushed once more
SseReadDone ==
    /\ ssePc = "read"
    /\ ~aborted
    /\ Len(source) = 0
    /\ events' = events \o flushBuffer(buffer).events
    /\ ssePc' = "done"
    /\ UNCHANGED <<script, source, buffer>>
    /\ UNCHANGED <<routeVars, streamVars, httpVars, pureVars>>

NextSse ==
    \/ SseReadChunk
    \/ SseReadDone

SpecSse == InitSse /\ [][NextSse]_vars

\* =====================================================================
\* Helper functions on JSON values
\* =====================================================================
\* A JSON value (or undefined) with its type: val is a boolean, an integer, a
\* string, a sequence of values or a function from property names to values.
JUndefined == [t |-> "undefined", val |-> 0]
JNull == [t |-> "null", val |-> 0]
JBool(b) == [t |-> "boolean", val |-> b]
JNum(n) == [t |-> "number", val |-> n]
JStr(str) == [t |-> "string", val |-> str]
JArr(items) == [t |-> "array", val |-> items]
JObj(props) == [t |-> "object", val |-> props]
EmptyObject == JObj(<<>>)

\* `x && typeof x === 'object' && !Array.isArray(x)`
isPlainObject(x) == x.t = "object"

\* o[k] of a plain object
prop(o, k) == IF k \in DOMAIN o.val THEN o.val[k] ELSE JUndefined

\* o[k] = x on a plain object
assign(o, k, x) == JObj([n \in (DOMAIN o.val) \cup { k } |-> IF n = k THEN x ELSE o.val[n]])

\* the objects that give each name of Choices one of its values, a name
\* whose value is undefined being left out
ObjectsOver(Choices) ==
    LET names == DOMAIN Choices
        picks == { c \in [names -> UNION { Choices[n] : n \in names }] :
                     \A n \in names : c[n] \in Choices[n] }
    IN { JObj([k \in { n \in names : c[n] # JUndefined } |-> c[k]]) : c \in picks }

\* ------------------------------------------------ enrichPayloadMetadata
\* enrichPayloadMetadata that stamps the attempt over the server's number
enrichJsonPayloadOverwrites(payload, requestId, n) ==
    IF ~isPlainObject(payload) THEN payload
    ELSE LET metadataRaw == prop(payload, "metadata")
             metadata == IF isPlainObject(metadataRaw) THEN metadataRaw ELSE EmptyObject
             withId == IF IsSome(requestId) /\ Len(Get(requestId)) > 0
                          /\ prop(metadata, "requestId").t # "string"
                          THEN assign(metadata, "requestId", JStr(Get(requestId)))
                          ELSE metadata
         IN assign(payload, "metadata", assign(withId, "attempt", JNum(n)))

\* enrichPayloadMetadata on a payload of any JSON type; requestId is the
\* x-request-id header, when the response has one
enrichJsonPayload(payload, requestId, n) ==
    IF ~isPlainObject(payload) THEN payload
    ELSE LET metadataRaw == prop(payload, "metadata")
             metadata == IF isPlainObject(metadataRaw) THEN metadataRaw ELSE EmptyObject
             withId == IF IsSome(requestId) /\ Len(Get(requestId)) > 0
                          /\ prop(metadata, "requestId").t # "string"
                          THEN assign(metadata, "requestId", JStr(Get(requestId)))
                          ELSE metadata
             withAttempt == IF prop(withId, "attempt").t # "number"
                               THEN assign(withId, "attempt", JNum(n))
                               ELSE withId
         IN assign(payload, "metadata", withAttempt)

\* metadata values a server payload may hold
WireMetadata ==
    { JUndefined, JNull, JStr("m"), JArr(<<>>) }
    \cup ObjectsOver([requestId |-> { JUndefined, JStr("srv-req"), JNum(5), JNull },
                      attempt |-> { JUndefined, JNum(7), JNum(0), JStr("3") },
                      tool |-> { JUndefined, JStr("planner") }])

\* parsed bodies of a 2xx response: nothing, a primitive, an array or an object
WirePayloads ==
    { JUndefined, JNull, JStr("ok"), JNum(3), JBool(TRUE), JArr(<< JNum(1) >>) }
    \cup ObjectsOver([data |-> { JUndefined, JStr("d") }, metadata |-> WireMetadata])

InitEnrich ==
    /\ RouteIdle
    /\ StreamIdle
    /\ HttpIdle
    /\ SseIdle
    /\ fnArgs \in { Some([payload |-> p, requestId |-> h, attempt |-> n]) :
                      p \in WirePayloads, h \in { None, Some(""), Some("hdr-req") },
                      n \in 1..MaxAttempts }
    /\ fnResult = None

\* requestOnce returns enrichPayloadMetadata(payload, requestId, attempt)
EnrichPayloadMetadataReturns ==
    /\ IsSome(fnArgs)
    /\ fnResult = None
    /\ fnResult' = Some(enrichJsonPayload(Get(fnArgs).payload, Get(fnArgs).requestId, Get(fnArgs).attempt))
    /\ UNCHANGED fnArgs
    /\ UNCHANGED <<routeVars, streamVars, httpVars, sseVars>>

NextEnrich == EnrichPayloadMetadataReturns

SpecEnrich == InitEnrich /\ [][NextEnrich]_vars

\* =====================================================================
\* backoffDelayMs and the delays of normalizeRetryPolicy
\* =====================================================================
\* Math.floor(exponential * 0.2) on a non-negative integer
fifthOf(exponential) == exponential \div 5

\* backoffDelayMs whose jitter ranges over the whole of the exponential delay
backoffDelayMsFullJitter(n, policy) ==
    LET exponential == Min(policy.maxDelayMs, policy.baseDelayMs * (2 ^ (n - 1)))
    IN  { exponential + jitter : jitter \in 0..(Max(1, exponential) - 1) }

\* backoffDelayMs(attempt, policy): the delays it can return. Math.random() is
\* any number r with 0 <= r < 1, so Math.floor(r * m) is any integer of 0..m-1.
backoffDelayMs(n, policy) ==
    LET exponential == Min(policy.maxDelayMs, policy.baseDelayMs * (2 ^ (n - 1)))
        jitters     == 0..(Max(1, fifthOf(exponential)) - 1)
    IN  { Min(policy.maxDelayMs, exponential + jitter) : jitter \in jitters }

\* the integer retry policies a caller may construct the HttpClient with
DelayPolicies ==
    { [maxAttempts |-> m, baseDelayMs |-> b, maxDelayMs |-> x, retriableStatusCodes |-> None] :
        m \in { None, Some(-2), Some(0), Some(1), Some(4), Some(10), Some(11), Some(25) },
        b \in { None, Some(-5), Some(0), Some(3), Some(25), Some(40), Some(250) },
        x \in { None, Some(-1), Some(10), Some(45), Some(300) } }

InitBackoff ==
    /\ RouteIdle
    /\ StreamIdle
    /\ HttpIdle
    /\ SseIdle
    /\ fnArgs \in { Some([policy |-> p, attempt |-> n]) : p \in DelayPolicies, n \in 1..MaxBackoffAttempt }
    /\ fnResult = None

\* the constructor of HttpClient: this.retryPolicy = normalizeRetryPolicy(options.retryPolicy)
NormalizeRetryPolicyReturns ==
    /\ IsSome(fnArgs)
    /\ fnResult = None
    /\ fnResult' = Some([policy |-> normalizeRetryPolicy(Get(fnArgs).policy), wait |-> None])
    /\ UNCHANGED fnArgs
    /\ UNCHANGED <<routeVars, streamVars, httpVars, sseVars>>

\* requestJson: await sleep(backoffDelayMs(attempt, this.retryPolicy))
BackoffDelayMsReturns ==
    /\ IsSome(fnResult)
    /\ Get(fnResult).wait = None
    /\ \E delay \in backoffDelayMs(Get(fnArgs).attempt, Get(fnResult).policy) :
         fnResult' = Some([Get(fnResult) EXCEPT !.wait = Some(delay)])
    /\ UNCHANGED fnArgs
    /\ UNCHANGED <<routeVars, streamVars, httpVars, sseVars>>

NextBackoff ==
    \/ NormalizeRetryPolicyReturns
    \/ BackoffDelayMsReturns

SpecBackoff == InitBackoff /\ [][NextBackoff]_vars

\* =====================================================================
\* listDevices on the hub's answer as it comes, whatever its shape
\* =====================================================================
\* x[k] for the property names read here, on a value that is not null or
\* undefined: only a plain object has them
member(x, k) == IF isPlainObject(x) THEN prop(x, k) ELSE JUndefined

\* Boolean(x), !!x
truthy(x) ==
    CASE x.t \in { "undefined", "null" } -> FALSE
      [] x.t = "boolean" -> x.val
      [] x.t = "number" -> x.val # 0
      [] x.t = "string" -> x.val # ""
      [] OTHER -> TRUE

\* the object with the properties of f whose value is not undefined
definedProps(f) == JObj([k \in { n \in DOMAIN f : f[n] # JUndefined } |-> f[k]])

NoDeviceList == [online |-> FALSE, deviceCount |-> 0, devices |-> <<>>]
ListThrows(error) == [t |-> "throw", error |-> error, list |-> NoDeviceList]
ListReturns(list) == [t |-> "return", error |-> RtrvrError("", None), list |-> list]

\* the .map callback of normalizeDeviceList
deviceInfo(item) ==
    [deviceId |-> IF prop(item, "deviceId").t = "string" THEN prop(item, "deviceId").val ELSE "unknown",
     deviceName |-> IF prop(item, "deviceName").t = "string" THEN Some(prop(item, "deviceName").val) ELSE None,
     lastSeen |-> IF prop(item, "lastSeen").t = "string" THEN Some(prop(item, "lastSeen").val) ELSE None,
     hasFcmToken |-> IF prop(item, "hasFcmToken").t = "boolean" THEN Some(prop(item, "hasFcmToken").val) ELSE None]

\* normalizeDeviceList(data) on data of any JSON type; typeof an array is
\* 'object' and an array has none of the three properties
normalizeDeviceListJson(data) ==
    IF ~truthy(data) \/ data.t \notin { "object", "array" } THEN NoDeviceList
    ELSE LET devicesRaw == member(data, "devices")
             entries == IF devicesRaw.t = "array" THEN devicesRaw.val ELSE <<>>
             kept == SelectSeq(entries, LAMBDA item : item.t = "object")
         IN [online |-> truthy(member(data, "online")),
             deviceCount |-> IF member(data, "deviceCount").t = "number"
                                THEN member(data, "deviceCount").val
                                ELSE Len(entries),
             devices |-> [i \in 1..Len(kept) |-> deviceInfo(kept[i])]]

\* listDevices(): toolRun -> toolRunWithMetadata on what requestJson
\* returned, then normalizeDeviceList. The hub's error.message is a string
\* when it is there.
listDevicesJson(response) ==
    IF response.t = "undefined"
       THEN ListThrows(TypeError("Cannot read properties of undefined (reading 'success')"))
    ELSE IF response.t = "null"
       THEN ListThrows(TypeError("Cannot read properties of null (reading 'success')"))
    ELSE IF ~truthy(member(response, "success"))
       THEN LET message == member(member(response, "error"), "message") IN
            ListThrows(RtrvrError(IF message.t = "string" THEN message.val
                                  ELSE "Tool '" \o TOOL_LIST_DEVICES \o "' failed", None))
    ELSE ListReturns(normalizeDeviceListJson(member(response, "data")))

\* entries of the devices array
WireEntries ==
    { JNull, JNum(5), JStr("dev-0"), EmptyObject,
      definedProps([deviceId |-> JNum(1), deviceName |-> JStr("Phone")]),
      definedProps([deviceId |-> JStr("dev-1"), deviceName |-> JStr("Laptop"), hasFcmToken |-> JBool(TRUE)]),
      definedProps([deviceId |-> JStr("dev-2"), lastSeen |-> JNum(7), hasFcmToken |-> JStr("yes")]) }

\* the data field of the hub's answer to list_devices
WireDeviceData ==
    { JUndefined, JNull, JStr("d"), JNum(0), JBool(TRUE), JArr(<<>>) }
    \cup { definedProps([online |-> o, deviceCount |-> c, devices |-> ds]) :
             o \in { JUndefined, JBool(TRUE), JBool(FALSE), JStr("yes"), JNum(0) },
             c \in { JUndefined, JNum(1), JNum(5), JStr("2") },
             ds \in { JUndefined, JStr("x"), EmptyObject }
                    \cup { JArr(items) : items \in SeqsUpTo(WireEntries, MaxEntries) } }

\* what requestJson returns for a 2xx answer of the hub
WireHubAnswers ==
    { JUndefined, JNull, JNum(3), JStr("ok"), JArr(<<>>) }
    \cup { definedProps([success |-> ok, error |-> e, data |-> data]) :
             ok \in { JUndefined, JBool(TRUE), JBool(FALSE) },
             e \in { JUndefined, definedProps([message |-> JStr("hub says no")]) },
             data \in WireDeviceData }

InitDevices ==
    /\ RouteIdle
    /\ StreamIdle
    /\ HttpIdle
    /\ SseIdle
    /\ fnArgs \in { Some([response |-> r]) : r \in WireHubAnswers }
    /\ fnResult = None

\* listDevices() settles
ListDevicesSettles ==
    /\ IsSome(fnArgs)
    /\ fnResult = None
    /\ fnResult' = Some(listDevicesJson(Get(fnArgs).response))
    /\ UNCHANGED fnArgs
    /\ UNCHANGED <<routeVars, streamVars, httpVars, sseVars>>

NextDevices == ListDevicesSettles

SpecDevices == InitDevices /\ [][NextDevices]_vars

\* =====================================================================
\* prepareStreamRequest / prepareScrapeStreamRequest of the CLI
\* =====================================================================
\* ensureRecord(value)
ensureRecord(x) == IF isPlainObject(x) THEN x ELSE EmptyObject

\* the options assignment written without the spread of optionsRecord
withEmitEventsOnly(options) ==
    LET optionsRecord == ensureRecord(options)
        uiRecord == ensureRecord(prop(optionsRecord, "ui"))
    IN  assign(EmptyObject, "ui", assign(uiRecord, "emitEvents", JBool(TRUE)))

\* request.options = { ...optionsRecord, ui: { ...uiRecord, emitEvents: true } }
withEmitEvents(options) ==
    LET optionsRecord == ensureRecord(options)
        uiRecord == ensureRecord(prop(optionsRecord, "ui"))
    IN  assign(optionsRecord, "ui", assign(uiRecord, "emitEvents", JBool(TRUE)))

\* request.trajectoryId?.trim() || randomUUID()
trajectoryIdOr(given, uuid) ==
    IF IsSome(given) /\ trim(Get(given)) # "" THEN trim(Get(given)) ELSE uuid

\* prepareStreamRequest(request): the request as it leaves it and the pair it
\* returns; uuid is what randomUUID() gives. The phase is an integer here.
prepareStreamRequest(req, uuid) ==
    LET trajectoryId == trajectoryIdOr(req.trajectoryId, uuid)
        phase == IF IsSome(req.phase) /\ Get(req.phase) > 0 THEN Get(req.phase) ELSE 1
    IN  [request |-> [req EXCEPT !.trajectoryId = Some(trajectoryId),
                                 !.phase = Some(phase),
                                 !.options = withEmitEvents(req.options)],
         trajectoryId |-> trajectoryId,
         phase |-> phase]

\* prepareScrapeStreamRequest(request)
prepareScrapeStreamRequest(req, uuid) ==
    LET trajectoryId == trajectoryIdOr(req.trajectoryId, uuid)
    IN  [request |-> [req EXCEPT !.trajectoryId = Some(trajectoryId),
                                 !.options = withEmitEvents(req.options)],
         trajectoryId |-> trajectoryId,
         phase |-> 1]

\* values of options.ui as --options-json may give them
UiValues ==
    { JUndefined, JNull, JStr("compact"), JBool(TRUE), JArr(<<>>) }
    \cup ObjectsOver([emitEvents |-> { JUndefined, JBool(TRUE), JBool(FALSE), JStr("yes") },
                      theme |-> { JUndefined, JStr("dark") },
                      verbose |-> { JUndefined, JBool(FALSE) }])

\* values of request.options: parseJsonText returns undefined or whatever
\* JSON.parse gives
OptionsValues ==
    { JUndefined, JNull, JStr("fast"), JArr(<< JNum(1) >>) }
    \cup { definedProps([ui |-> ui, timeout |-> ms, model |-> m]) :
             ui \in UiValues, ms \in { JUndefined, JNum(30) }, m \in { JUndefined, JStr("fast") } }

RandomUUIDs == { "uuid-1", "uuid-2" }

StreamRequests ==
    { [op |-> o, trajectoryId |-> tid, phase |-> ph, options |-> opts] :
        o \in { "run", "scrape" },
        tid \in { None, Some("  "), Some(" t-1 ") },
        ph \in { None, Some(0), Some(3) },
        opts \in OptionsValues }

InitPrepare ==
    /\ RouteIdle
    /\ StreamIdle
    /\ HttpIdle
    /\ SseIdle
    /\ fnArgs \in { Some([request |-> r]) : r \in StreamRequests }
    /\ fnResult = None

\* `rtrvr run` / `rtrvr agent` with streaming on: ...prepareStreamRequest(request)
PrepareStreamRequestReturns ==
    /\ IsSome(fnArgs)
    /\ Get(fnArgs).request.op = "run"
    /\ fnResult = None
    /\ \E uuid \in RandomUUIDs :
         fnResult' = Some(prepareStreamRequest(Get(fnArgs).request, uuid))
    /\ UNCHANGED fnArgs
    /\ UNCHANGED <<routeVars, streamVars, httpVars, sseVars>>

\* `rtrvr scrape` with streaming on: ...prepareScrapeStreamRequest(request)
PrepareScrapeStreamRequestReturns ==
    /\ IsSome(fnArgs)
    /\ Get(fnArgs).request.op = "scrape"
    /\ fnResult = None
    /\ \E uuid \in RandomUUIDs :
         fnResult' = Some(prepareScrapeStreamRequest(Get(fnArgs).request, uuid))
    /\ UNCHANGED fnArgs
    /\ UNCHANGED <<routeVars, streamVars, httpVars, sseVars>>

NextPrepare ==
    \/ PrepareStreamRequestReturns
    \/ PrepareScrapeStreamRequestReturns

SpecPrepare == InitPrepare /\ [][NextPrepare]_vars

\* ---- vocabulary of the properties, stated on the request and the log
ReqMode(m) ==
    /\ request.op \in {"run", "scrape"}
    /\ request.target = Some(m) \/ (request.target = None /\ client.defaultTarget = m)
ReqNonBlankDevice == request.deviceId = Some("d42")
ReqNoDevice == request.deviceId \in { None, Some(""), Some(" ") }
ReqRequireLocal == request.requireLocalSession = Some(TRUE)
ReqSoftAuto == ReqMode("auto") /\ ReqNoDevice /\ ~ReqRequireLocal
ReqHardAuto == ReqMode("auto") /\ (ReqNonBlankDevice \/ ReqRequireLocal)

\* messages of ServerMessages that report an unavailable device
DeviceUnavailableMessages ==
    { "No online Chrome extension", "Device d1 not online", "Device not found" }

IsCloudCall(c) == c.endpoint \in { "/agent", "/scrape" }
CloudCallCount == Cardinality({ i \in DOMAIN calls : IsCloudCall(calls[i]) })
ExtToolOf(op) == IF op = "run" THEN "planner" ELSE "scrape"
CloudPathOf(op) == IF op = "run" THEN "/agent" ELSE "/scrape"
IsExtToolCall(c) == c.endpoint = "mcp" /\ c.tool \in { "planner", "scrape" }
IsProbeCall(c) == c.endpoint = "mcp" /\ c.tool = "list_devices"

Done == pc = "done"
Returned_ == Done /\ Get(outcome).kind = "result"
Failed_ == Done /\ Get(outcome).kind = "error"
Meta == Get(outcome).metadata
DevicesOnline == IsSome(devices) /\ Get(devices).online
DevicesOffline == IsSome(devices) /\ ~Get(devices).online
IsRtrvrKey == client.authToken = "rtrvr_k"
AuthScopeFailure ==
    /\ Failed_
    /\ Get(outcome).error.message \in
         { "Cloud /agent requires an rtrvr_ API key. mcp_at_ tokens are only supported for MCP/OAuth endpoints.",
           "Cloud /scrape requires an rtrvr_ API key. mcp_at_ tokens are only supported for MCP/OAuth endpoints." }

\* C1: when executeWithEventStream has finished, it returned the value
\* execute() resolved with or threw the error execute() rejected with,
\* whatever the stream consumer did.
C1_ResultIsAuthoritative ==
    mainPc = "done" =>
        /\ execState.state = "resolved" => final = Some([kind |-> "return", value |-> execState.value])
        /\ execState.state = "rejected" => final = Some([kind |-> "throw", value |-> execState.error])

\* the stream failed after delivering events, and the call still finished
C1_Witness ==
    /\ mainPc = "done"
    /\ streamPc = "handled"
    /\ delivered > 0
    /\ execState.state = "resolved"
    /\ final = Some([kind |-> "return", value |-> "value-2"])

\* C2 (as stated): soft-auto, devices online, extension call failed: a
\* device-unavailability message gives exactly one cloud request and a
\* result marked as a cloud fallback; any other error gives no cloud
\* request and reaches the caller unchanged.
C2_Original ==
    (Done /\ ReqSoftAuto /\ DevicesOnline /\ IsSome(extError)) =>
        IF Get(extError).message \in DeviceUnavailableMessages
           THEN /\ CloudCallCount = 1
                /\ Returned_ => /\ Meta.selectedMode = "cloud"
                                /\ Meta.fallbackApplied
                                /\ IsSome(Meta.fallbackReason)
                                /\ Len(Get(Meta.fallbackReason)) > 0
           ELSE /\ CloudCallCount = 0
                /\ outcome = Failure(Get(extError))

\* C2 (amended): as stated on a client holding an rtrvr_ key; on a client
\* holding an mcp_at_ token the fallback fails with the auth-scope error
\* before any cloud request.
C2_FallbackOnNoDevice ==
    (Done /\ ReqSoftAuto /\ DevicesOnline /\ IsSome(extError)) =>
        IF Get(extError).message \in DeviceUnavailableMessages
           THEN IF IsRtrvrKey
                   THEN /\ CloudCallCount = 1
                        /\ calls[Len(calls)].endpoint = CloudPathOf(request.op)
                        /\ Returned_ => /\ Meta.selectedMode = "cloud"
                                        /\ Meta.fallbackApplied
                                        /\ IsSome(Meta.fallbackReason)
                                        /\ Len(Get(Meta.fallbackReason)) > 0
                   ELSE CloudCallCount = 0 /\ AuthScopeFailure
           ELSE /\ CloudCallCount = 0
                /\ outcome = Failure(Get(extError))

\* a fallback happened and produced a result
C2_Witness ==
    /\ Done /\ ReqSoftAuto /\ DevicesOnline /\ IsSome(extError)
    /\ Get(extError).message = "Device d1 not online"
    /\ Returned_
    /\ Meta.fallbackApplied
    /\ CloudCallCount = 1

\* C3 (as stated): a request with a non-blank deviceId or
\* requireLocalSession=true, whatever its target, never sends a cloud
\* request and never returns selectedMode=cloud.
C3_Original ==
    (ReqNonBlankDevice \/ ReqRequireLocal) =>
        /\ CloudCallCount = 0
        /\ Returned_ => Meta.selectedMode = "extension"

\* C4 (as stated): on the hard local-session path of run() and scrape(),
\* an extension call that the server resolved to the cloud-side tool
\* variant makes the call fail.
C4_Original ==
    (Done /\ ReqHardAuto
          /\ routedTool = Some(IF request.op = "run" THEN "cloud_agent" ELSE "cloud_scrape")) =>
        Failed_

\* C5 (as stated): soft-auto with no device online makes exactly the
\* list_devices request and then one cloud request, and a result is a
\* cloud result without fallback.
C5_Original ==
    (Done /\ ReqSoftAuto /\ DevicesOffline) =>
        /\ Len(calls) = 2
        /\ IsProbeCall(calls[1])
        /\ calls[2].endpoint = CloudPathOf(request.op)
        /\ Returned_ => Meta.selectedMode = "cloud" /\ ~Meta.fallbackApplied

\* C5 (amended): as stated on a client holding an rtrvr_ key; on a client
\* holding an mcp_at_ token the probe is the only request and the call
\* fails with the auth-scope error. No extension tool call in either case.
C5_NoDeviceGoesToCloud ==
    (Done /\ ReqSoftAuto /\ DevicesOffline) =>
        IF IsRtrvrKey
           THEN /\ Len(calls) = 2
                /\ IsProbeCall(calls[1])
                /\ calls[2].endpoint = CloudPathOf(request.op)
                /\ Returned_ => Meta.selectedMode = "cloud" /\ ~Meta.fallbackApplied
           ELSE /\ Len(calls) = 1
                /\ IsProbeCall(calls[1])
                /\ AuthScopeFailure

\* the probe found nothing online and the cloud request gave the result
C5_Witness ==
    /\ Done /\ ReqSoftAuto /\ DevicesOffline
    /\ Returned_
    /\ Len(calls) = 2
    /\ Meta.selectedMode = "cloud"

\* the extension tool call of the soft-auto path was made and did not fail
SoftExtSucceeded ==
    /\ Done /\ ReqSoftAuto /\ DevicesOnline
    /\ Len(calls) >= 2
    /\ IsExtToolCall(calls[2])
    /\ extError = None

\* C6 (as stated): soft-auto, devices online, successful extension call:
\* selectedMode=extension, fallbackApplied=false, exactly two requests
\* (probe, extension tool), no cloud request.
C6_Original ==
    SoftExtSucceeded =>
        /\ Returned_
        /\ Meta.selectedMode = "extension"
        /\ ~Meta.fallbackApplied
        /\ Len(calls) = 2
        /\ IsProbeCall(calls[1])
        /\ CloudCallCount = 0

\* C6 (amended): as stated, except that scrape() reports
\* selectedMode=cloud and fallbackApplied=true when the answer's metadata
\* names cloud_scrape; the two requests and the absence of a cloud request
\* hold in both cases.
C6_ExtensionPreferred ==
    SoftExtSucceeded =>
        /\ Returned_
        /\ Len(calls) = 2
        /\ IsProbeCall(calls[1])
        /\ calls[2].tool = ExtToolOf(request.op)
        /\ CloudCallCount = 0
        /\ IF request.op = "scrape" /\ routedTool = Some("cloud_scrape")
              THEN Meta.selectedMode = "cloud" /\ Meta.fallbackApplied
              ELSE Meta.selectedMode = "extension" /\ ~Meta.fallbackApplied

\* scrape() in soft-auto got an answer resolved to cloud_scrape
C6_Witness ==
    /\ SoftExtSucceeded
    /\ request.op = "scrape"
    /\ routedTool = Some("cloud_scrape")
    /\ Meta.selectedMode = "cloud"

\* C7: requested mode auto with a non-blank deviceId: no list_devices
\* request is ever made, and from the first request on the log holds
\* exactly one request, the extension tool call carrying that deviceId.
C7_ExplicitDeviceSkipsProbe ==
    (ReqMode("auto") /\ ReqNonBlankDevice) =>
        /\ \A i \in DOMAIN calls : ~IsProbeCall(calls[i])
        /\ pc \notin {"start", "idle"} =>
             /\ Len(calls) = 1
             /\ calls[1] = [endpoint |-> "mcp", tool |-> ExtToolOf(request.op),
                            deviceId |-> request.deviceId]

\* such a call finished with a result
C7_Witness ==
    /\ ReqMode("auto") /\ ReqNonBlankDevice
    /\ Returned_
    /\ Len(calls) = 1
    /\ Meta.selectedMode = "extension"

\* C8: requested mode auto, requireLocalSession=true, no deviceId, and
\* the probe reports no device online: the call fails with the probe as
\* its only request.
C8_NoLocalSessionFails ==
    (Done /\ ReqMode("auto") /\ ReqRequireLocal /\ ReqNoDevice /\ DevicesOffline) =>
        /\ Failed_
        /\ Len(calls) = 1
        /\ IsProbeCall(calls[1])

\* the probe of such a call answered with no device online
C8_Witness ==
    /\ Done /\ ReqMode("auto") /\ ReqRequireLocal /\ ReqNoDevice /\ DevicesOffline
    /\ Failed_
    /\ Get(outcome).error.message \in
         { "No online extension devices found, but this run requires local browser session.",
           "No online extension devices found, but this scrape requires local browser session." }

\* C9: scrape() with requested mode extension makes one request, the
\* scrape tool call; a result reports cloud with fallbackApplied and a
\* reason naming cloud_scrape exactly when the answer's metadata names
\* cloud_scrape, and extension without fallback otherwise.
C9_ExtensionScrapeReportsAlias ==
    (request.op = "scrape" /\ ReqMode("extension") /\ pc \notin {"start", "idle"}) =>
        /\ Len(calls) = 1
        /\ calls[1].endpoint = "mcp" /\ calls[1].tool = "scrape"
        /\ Returned_ =>
             IF routedTool = Some("cloud_scrape")
                THEN /\ Meta.selectedMode = "cloud"
                     /\ Meta.fallbackApplied
                     /\ IsSome(Meta.fallbackReason)
                     /\ includes(Get(Meta.fallbackReason), "cloud_scrape")
                ELSE /\ Meta.selectedMode = "extension"
                     /\ ~Meta.fallbackApplied

\* an extension-mode scrape was resolved to cloud_scrape
C9_Witness ==
    /\ request.op = "scrape" /\ ReqMode("extension")
    /\ Returned_
    /\ routedTool = Some("cloud_scrape")
    /\ Meta.fallbackApplied

\* C10 (as stated): a result with fallbackApplied=true has
\* selectedMode=cloud and comes from a soft-auto call; a call with
\* requested mode cloud always selects cloud.
C10_Original ==
    Returned_ =>
        /\ Meta.fallbackApplied => Meta.selectedMode = "cloud" /\ ReqSoftAuto
        /\ ReqMode("cloud") => Meta.selectedMode = "cloud"

\* C10 (amended): a result with fallbackApplied=true has
\* selectedMode=cloud and comes from a soft-auto call or from a scrape()
\* with requested mode extension whose answer names cloud_scrape; no call
\* with requested mode cloud, no run() with requested mode extension and
\* no hard local-session call returns fallbackApplied=true, and a call
\* with requested mode cloud always selects cloud.
C10_FallbackOnlyToCloud ==
    Returned_ =>
        /\ Meta.fallbackApplied =>
             /\ Meta.selectedMode = "cloud"
             /\ \/ ReqSoftAuto
                \/ /\ request.op = "scrape"
                   /\ ReqMode("extension")
                   /\ routedTool = Some("cloud_scrape")
        /\ ReqMode("cloud") => Meta.selectedMode = "cloud" /\ ~Meta.fallbackApplied

\* a soft-auto call fell back to cloud
C10_Witness ==
    /\ Returned_
    /\ Meta.fallbackApplied
    /\ ReqSoftAuto
    /\ request.op = "run"
    /\ IsSome(extError)

\* the request asks for the extension first, or the client is configured to
PrefersExtension == request.preferExtension = Some(TRUE) \/ client.preferExtensionByDefault

\* C11 (as stated): in auto mode without a hard requirement the extension
\* tool is called only when the request or the client configuration asks
\* for the extension first; without that preference the call runs on
\* cloud even when list_devices reports a device online.
C11_Original ==
    (ReqSoftAuto /\ ~PrefersExtension) =>
        /\ \A i \in DOMAIN calls : ~IsExtToolCall(calls[i])
        /\ Returned_ => Meta.selectedMode = "cloud"

IsControlCall(c) == c.endpoint \in { "/cli/profile", "/cli/capabilities" }
IsMcpToken == client.authToken = "mcp_at_k"
ReqControl == request.op \in { "profileGet", "capabilitiesGet" }

\* C15: a client holding an mcp_at_ token sends every request to the hub,
\* never to /agent, /scrape, /cli/profile or /cli/capabilities, in its
\* first call and in the calls after it; a call that asks for cloud or for
\* a control endpoint makes no request and fails with the auth-scope error.
C15_McpTokenNeverReachesCloud ==
    IsMcpToken =>
        /\ \A i \in DOMAIN calls : calls[i].endpoint = "mcp"
        /\ (Done /\ (ReqControl \/ ReqMode("cloud"))) =>
              /\ calls = <<>>
              /\ Failed_
              /\ includes(Get(outcome).error.message, "requires an rtrvr_ API key")
        /\ (Done /\ Len(calls) > 0 /\ ~IsExtToolCall(calls[Len(calls)])) =>
              Failed_

\* the second call of an mcp_at_ client went through the hub and returned
C15_Witness ==
    /\ IsMcpToken
    /\ ops = 1
    /\ Returned_
    /\ ReqMode("extension")
    /\ Len(calls) = 1
    /\ IsExtToolCall(calls[1])

\* ---- vocabulary of the requestJson properties
HttpDone == httpPc = "done"
HttpReturned == HttpDone /\ Get(httpOutcome).t = "return"
HttpThrew == HttpDone /\ Get(httpOutcome).t = "throw"
FailedAttempts == Len(attemptErrors)
IsRetriableStatus(e) == e.status # None /\ Get(e.status) \in retryPolicy.retriableStatusCodes
IsRetriableError(e) == e.status = None \/ IsRetriableStatus(e)
\* metadata.attempt of the value requestJson returned, when it has one
ReportedAttempt ==
    IF Get(httpOutcome).payload = None THEN None
    ELSE IF Get(Get(httpOutcome).payload).metadata = None THEN None
    ELSE Get(Get(Get(httpOutcome).payload).metadata).attempt
LastFetched == fetchLog[Len(fetchLog)]
\* metadata.attempt of the body the server sent, when it has one
ServerAttempt(body) ==
    IF body = None THEN None
    ELSE IF Get(body).metadata = None THEN None
    ELSE Get(Get(body).metadata).attempt

AttemptFailedStep == Len(attemptErrors') = Len(attemptErrors) + 1
\* what the claim says follows the failure of attempt number `attempt`
RetryDecisionStep ==
    LET e == attemptErrors'[Len(attemptErrors')] IN
    IF attempt < retryPolicy.maxAttempts /\ signal # Some(TRUE) /\ IsRetriableError(e)
       THEN (httpPc' = "sleep" /\ httpOutcome' = None)
       ELSE (httpPc' = "done" /\ httpOutcome' = Some(Thrown(e)))

\* C13: when attempt n fails, requestJson goes on to the backoff sleep and
\* another attempt exactly when n < maxAttempts, the caller's signal is
\* not aborted and the error has no status or a retriable one; otherwise
\* it throws that error at once.  The sleep is always followed by the
\* next attempt, a call makes at most maxAttempts requests, and no
\* attempt follows a failure with a non-retriable status.
C13_RetryExactlyWhenEligible ==
    /\ [](sent <= retryPolicy.maxAttempts)
    /\ [](\A i \in 1..FailedAttempts :
             (attemptErrors[i].status # None /\ ~IsRetriableStatus(attemptErrors[i])) => (sent = i /\ HttpThrew))
    /\ [][AttemptFailedStep => RetryDecisionStep]_vars
    /\ [][(httpPc = "sleep" /\ httpPc' # "sleep") => (httpPc' = "requestOnce" /\ sent' = sent + 1)]_vars

\* the caller aborted during the second attempt of three: no third attempt
C13_Witness ==
    /\ HttpThrew
    /\ retryPolicy.maxAttempts = 3
    /\ FailedAttempts = 2
    /\ sent = 2
    /\ signal = Some(TRUE)
    /\ IsRetriableError(attemptErrors[2])

\* C14: when every one of the maxAttempts attempts failed with a
\* retriable error, requestJson throws the error of the last attempt,
\* with its message, status, requestId and details.
C14_LastErrorRethrown ==
    (HttpDone /\ FailedAttempts = retryPolicy.maxAttempts
              /\ \A i \in 1..FailedAttempts : IsRetriableError(attemptErrors[i])) =>
        /\ HttpThrew
        /\ Get(httpOutcome).error = attemptErrors[FailedAttempts]
        /\ Get(httpOutcome).error.message # "Request failed after retries were exhausted."

\* three retriable failures that differ from one another
C14_Witness ==
    /\ HttpThrew
    /\ retryPolicy.maxAttempts = 3
    /\ FailedAttempts = 3
    /\ \A i \in 1..3 : IsRetriableError(attemptErrors[i])
    /\ attemptErrors[3] # attemptErrors[1] /\ attemptErrors[3] # attemptErrors[2]
    /\ attemptErrors[3].status = Some(503)
    /\ attemptErrors[3].requestId = Some("hdr-req")
    /\ attemptErrors[3].details # None
    /\ Get(httpOutcome).error = attemptErrors[3]

\* ---- vocabulary of the executeWithEventStream properties
ExecSettled == execState.state # "pending"
MainDone == mainPc = "done"
\* the stream consumer has returned, or has thrown and its handler has run
ConsumerFinished == streamPc \in { "returned", "handled" }
\* the stream failed for a reason other than the cancellation
GenuineStreamFailure == IsSome(streamError) /\ streamError # Some("This operation was aborted")

\* C16: the stream's abort is requested only once execute() has settled,
\* it has been requested whenever executeWithEventStream finishes (after a
\* resolved and after a rejected execute() alike), and
\* executeWithEventStream finishes only after the consumer has returned or
\* its rejection has been handled.
C16_CancelAfterSettleThenWait ==
    /\ aborted => ExecSettled
    /\ ~abortedWhilePending
    /\ mainPc \in { "awaitStream", "done" } => aborted
    /\ MainDone => (ConsumerFinished /\ streamPromise # "pending")

\* execute() rejected; the consumer, reading the body, stopped on the abort
C16_Witness ==
    /\ MainDone
    /\ execState.state = "rejected"
    /\ aborted
    /\ streamPc = "returned"
    /\ delivered > 0
    /\ final = Some([kind |-> "throw", value |-> "exec-error-1"])

\* C17 (as stated): a stream failure is never thrown to the caller, no
\* warning is printed before execute() settles, and every stream failure
\* is printed as a warning once executeWithEventStream finishes.
C17_Original ==
    /\ printed # <<>> => (ExecSettled /\ MainDone)
    /\ MainDone => final = ExecOutcome
    /\ (MainDone /\ GenuineStreamFailure) => printed = <<Get(streamError)>>

\* a step in which the .catch handler of the stream promise runs
StreamCatchStep == streamPc = "rejected" /\ streamPc' = "handled"

\* C17 (amended): a stream failure is never thrown to the caller and no
\* warning is printed before execute() settles.  The failure is recorded
\* when its handler runs before the abort was requested, and dropped when
\* the handler runs after it; a recorded failure is printed exactly once,
\* when executeWithEventStream finishes, after a resolved or a rejected
\* execute() alike.
C17_FailureIsWarningUnlessCancelled ==
    /\ [](printed # <<>> => (ExecSettled /\ MainDone))
    /\ [](MainDone => final = ExecOutcome)
    /\ [](MainDone => printed = (IF IsSome(streamWarning) THEN <<Get(streamWarning)>> ELSE <<>>))
    /\ [][StreamCatchStep =>
            (streamWarning' = (IF aborted THEN None ELSE streamError) /\ streamPromise' = "fulfilled")]_vars

\* the stream failed while execute() was pending; execute() then rejected,
\* and the caller got that rejection with the warning printed
C17_Witness ==
    /\ MainDone
    /\ execState.state = "rejected"
    /\ streamError = Some("onEvent failed")
    /\ printed = <<"onEvent failed">>
    /\ final = Some([kind |-> "throw", value |-> "exec-error-2"])

\* C18: once execute() has settled, executeWithEventStream finishes,
\* wherever the stream consumer is at that moment.
C18_StreamNeverBlocksResult == ExecSettled ~> MainDone

\* execute() settled and the abort was requested while the consumer was
\* in the startup grace sleep
C18_Witness ==
    /\ mainPc = "awaitStream"
    /\ ExecSettled
    /\ streamPc = "sleep"
    /\ connects = MaxConnects

\* ---- vocabulary of the event stream properties, stated on the body sent
IsDataLine(l) == l.field = "data"
DataLinesOf(block) == SelectSeq(block, IsDataLine)
HasDataLine(block) == Len(DataLinesOf(block)) > 0
\* value of the last line of the block with that field, when there is one
LastValueOf(block, field) ==
    LET idx == { i \in 1..Len(block) : block[i].field = field } IN
    IF idx = {} THEN None ELSE Some(block[CHOOSE i \in idx : \A j \in idx : j <= i].value)

RECURSIVE JoinedValues(_)
JoinedValues(ls) ==
    IF Len(ls) = 1 THEN ls[1].value ELSE ls[1].value \o "\n" \o JoinedValues(Tail(ls))

\* the invocation a block with a data line calls for
ExpectedEvent(block) ==
    [id |-> LastValueOf(block, "id"),
     event |-> OrElse(LastValueOf(block, "event"), "message"),
     raw |-> JoinedValues(DataLinesOf(block))]

RECURSIVE ExpectedEvents(_)
ExpectedEvents(blocks) ==
    IF Len(blocks) = 0 THEN <<>>
    ELSE (IF HasDataLine(blocks[1]) THEN << ExpectedEvent(blocks[1]) >> ELSE <<>>)
         \o ExpectedEvents(Tail(blocks))

\* the blocks of the body that a blank line closes
ClosedBlocks ==
    IF script.ending = "closed" \/ Len(script.blocks) = 0
       THEN script.blocks
       ELSE SubSeq(script.blocks, 1, Len(script.blocks) - 1)

\* what onEvent was called with: id, event name and joined data lines
Invocations == [i \in 1..Len(events) |-> [id |-> events[i].id, event |-> events[i].event, raw |-> events[i].raw]]
IsPrefixOf(a, b) == Len(a) <= Len(b) /\ SubSeq(b, 1, Len(a)) = a
SseDone == ssePc = "done"

\* C19 (as stated): when the body ends with a block that has a data line
\* and no closing blank line, that block is delivered to the callback once
\* at the end of the stream, after the blocks before it.
C19_Original ==
    (SseDone /\ script.ending # "closed" /\ Len(script.blocks) > 0
             /\ HasDataLine(script.blocks[Len(script.blocks)])) =>
        Invocations = ExpectedEvents(script.blocks)

StreamSuspended == streamPc \in { "fetch", "sleep", "errText", "read" }

\* the rejection fetch, response.text() and reader.read() give on an aborted signal
ABORT_ERROR == "This operation was aborted"

\* C21 (as stated): once the signal is aborted, whatever the consumer was
\* waiting for, the callback is not invoked again and streamExecutionEvents
\* returns; the abort does not make it throw.
C21_Original ==
    [][(aborted /\ StreamSuspended) =>
          (delivered' = delivered
           /\ ~(streamPc' = "rejected" /\ streamError' = Some(ABORT_ERROR)))]_vars

\* =====================================================================
\* Metadata of a result
\* =====================================================================
LastCall == calls[Len(calls)]

\* the attempt values a server payload may carry of its own
ServerSetAttempts ==
    { Get(Get(md).attempt) : md \in { m \in ServerMetadata : m # None /\ IsSome(Get(m).attempt) } }

\* the result's requestId and attempt are those the last transport request answered
MetaFromLastAnswer ==
    IF IsSome(answered)
       THEN Meta.requestId = Get(answered).requestId /\ Meta.attempt = Get(answered).attempt
       ELSE Meta.requestId = None /\ Meta.attempt = None

\* the last transport request is the one that executed the task
LastCallExecuted ==
    /\ Len(calls) > 0
    /\ Meta.selectedMode = "extension" => IsExtToolCall(LastCall) /\ LastCall.tool = ExtToolOf(request.op)
    /\ (Meta.selectedMode = "cloud" /\ routedTool # Some(TOOL_CLOUD_SCRAPE)) =>
          LastCall.endpoint = CloudPathOf(request.op)
    /\ (Meta.selectedMode = "cloud" /\ routedTool = Some(TOOL_CLOUD_SCRAPE)) =>
          IsExtToolCall(LastCall)

C23_Original ==
    httpPc = "requestOnce" =>
        /\ timedOut => fetchSignalAborted
        /\ (IsSome(signal) /\ Get(signal)) => fetchSignalAborted

\* =====================================================================
\* Reconnecting while the execution is not ready
\* =====================================================================
\* the response to the fetch in progress arrives
ResponseArrives == streamPc = "fetch" /\ responseStatus = None /\ responseStatus' # None
ArrivedStatus == Get(responseStatus')
LastUrl == fetchedUrls[Len(fetchedUrls)]

\* what streamExecutionEvents does with the status of a response
StatusDecision ==
    IF ArrivedStatus \in 200..299
       THEN streamPc' \notin { "sleep", "errText" }
    ELSE IF ArrivedStatus \in { 404, 425, 409 } /\ ~deadlinePassed
       THEN streamPc' = "sleep"
    ELSE streamPc' = "errText"

\* the wait is over: the consumer, unless it was cancelled meanwhile, connects
\* again to the URL it connected to before
WaitThenReconnect ==
    (streamPc = "sleep" /\ streamPc' # "sleep" /\ ~aborted) =>
        /\ streamPc' = "fetch"
        /\ connects' = connects + 1
        /\ fetchedUrls' = Append(fetchedUrls, LastUrl)

\* a fatal status ends the call with an error and no further connection
FatalWithoutReconnect ==
    /\ (streamPc = "errText" /\ streamPc' # "errText") => streamPc' = "rejected"
    /\ streamPc \in { "errText", "rejected", "handled" } =>
          (connects' = connects /\ fetchedUrls' = fetchedUrls
           /\ streamPc' \in { "errText", "rejected", "handled" })

\* C24: a response with status 404, 425 or 409 that arrives before the
\* startup deadline makes streamExecutionEvents wait and then connect
\* again to the same URL; the same status at or after the deadline, and
\* every other non-success status at any time, is fatal: the call ends
\* with an error and makes no further connection.
C24_NotReadyRetriesUntilDeadline ==
    /\ [][ResponseArrives => StatusDecision]_vars
    /\ [][WaitThenReconnect]_vars
    /\ [][FatalWithoutReconnect]_vars

\* after a not-ready answer and a reconnect, the same status past the
\* deadline ended the call with an error
C24_Witness ==
    /\ connects = 2
    /\ fetchedUrls = << "https://api/cli/executions/t%201/events?phase=2&since=0&includeOutput=1",
                        "https://api/cli/executions/t%201/events?phase=2&since=0&includeOutput=1" >>
    /\ responseStatus = Some(409)
    /\ deadlinePassed
    /\ streamPc = "rejected"
    /\ streamError = Some("Event stream failed")

\* =====================================================================
\* Chunking of the event stream body
\* =====================================================================
BodyText == bodyText(script.blocks, script.eol, script.ending)

\* number of characters of the body read so far
Consumed == Len(BodyText) - Len(source)

\* number of characters up to and including the blank line that closes block i
ClosedAt(i) == Len(bodyText(SubSeq(script.blocks, 1, i), script.eol, "closed"))

\* the blocks whose closing blank line has been read completely
ReceivedBlocks ==
    LET n == Cardinality({ i \in 1..Len(ClosedBlocks) : ClosedAt(i) <= Consumed })
    IN SubSeq(ClosedBlocks, 1, n)

\* C25: however the body is cut into chunks (inside a line, between the two
\* line ends of a blank line, between a CR and its LF), after each chunk
\* the callback has been invoked exactly for the data blocks whose closing
\* blank line has been read completely: the events delivered depend only
\* on the text read so far, and none waits for a later chunk.
C25_ChunkingDoesNotMatter ==
    ssePc \in { "read", "done" } => Invocations = ExpectedEvents(ReceivedBlocks)

\* a CRLF body was cut between the CR and the LF of the blank line that
\* closes its second block: the first event is delivered, the second is not yet
C25_Witness ==
    /\ ssePc = "read"
    /\ script.eol = "\r\n"
    /\ Len(script.blocks) = 2
    /\ HasDataLine(script.blocks[1]) /\ HasDataLine(script.blocks[2])
    /\ source = "\n"
    /\ buffer = "data: 1\n\r"
    /\ Len(events) = 1

\* =====================================================================
\* One body per call
\* =====================================================================
\* consumeEventStream has been called on a response body
BodyStarted == streamPc = "read" \/ delivered > 0
StreamOver == streamPc \in { "returned", "rejected", "handled" }

\* a new connection is made only at the start of the call or after the
\* wait that follows a not-ready status, and only while nothing was delivered
ConnectsOnlyBeforeBody ==
    connects' # connects =>
        /\ connects' = connects + 1
        /\ delivered = 0
        /\ streamPc \in { "idle", "sleep" }
        /\ streamPc = "sleep" => (IsSome(responseStatus) /\ Get(responseStatus) \in { 404, 425, 409 })

\* once a body has started the call reads that body and ends
BodyThenEnd ==
    /\ (streamPc' = "read" /\ streamPc # "read") =>
          (streamPc = "fetch" /\ responseStatus' = Some(200) /\ delivered = 0)
    /\ (BodyStarted \/ StreamOver) =>
          (streamPc' \notin { "fetch", "sleep", "errText" } /\ connects' = connects)
    /\ delivered' # delivered => (streamPc = "read" /\ delivered' > delivered)

\* C26: one call of streamExecutionEvents reads the body of at most one
\* response: it connects again only after a not-ready status and before
\* anything was delivered, and once a body has started it makes no further
\* connection, so the events of the body are delivered at most once.
C26_AtMostOneBody ==
    /\ [][ConnectsOnlyBeforeBody]_vars
    /\ [][BodyThenEnd]_vars
    /\ [](delivered <= MaxEvents)

\* the call connected twice, read one body to its end and returned
C26_Witness ==
    /\ connects = 2
    /\ responseStatus = Some(200)
    /\ delivered = MaxEvents
    /\ streamPc = "returned"
    /\ ~aborted

\* =====================================================================
\* What enrichPayloadMetadata leaves alone
\* =====================================================================
EnrichDone == IsSome(fnArgs) /\ IsSome(fnResult)
PayloadIn == Get(fnArgs).payload
PayloadOut == Get(fnResult)
MetadataIn == IF isPlainObject(PayloadIn) THEN prop(PayloadIn, "metadata") ELSE JUndefined
MetadataOut == IF isPlainObject(PayloadOut) THEN prop(PayloadOut, "metadata") ELSE JUndefined
HeaderId == Get(fnArgs).requestId

\* the fields of ob other than those named are the fields of oa, unchanged
SameExcept(oa, ob, names) ==
    /\ (DOMAIN oa.val) \ names = (DOMAIN ob.val) \ names
    /\ \A k \in (DOMAIN oa.val) \ names : ob.val[k] = oa.val[k]

\* C27 (as stated): requestId and attempt are set only on a JSON object and
\* only where the server did not set the field: what the server set for
\* them, the other fields of the metadata and of the payload, and a payload
\* that is not an object come back unchanged.
C27_Original ==
    EnrichDone =>
        /\ ~isPlainObject(PayloadIn) => PayloadOut = PayloadIn
        /\ isPlainObject(PayloadIn) =>
             /\ isPlainObject(PayloadOut)
             /\ SameExcept(PayloadIn, PayloadOut, { "metadata" })
             /\ isPlainObject(MetadataIn) =>
                  /\ isPlainObject(MetadataOut)
                  /\ SameExcept(MetadataIn, MetadataOut, { "requestId", "attempt" })
                  /\ \A k \in { "requestId", "attempt" } :
                       k \in DOMAIN MetadataIn.val => prop(MetadataOut, k) = prop(MetadataIn, k)

\* C27 (amended): a payload that is not a JSON object comes back unchanged.
\* Of a JSON object every field but metadata comes back unchanged, and its
\* metadata comes back as an object: the server's metadata object, or an
\* empty one when the server's metadata is not an object, with
\* requestId set to the x-request-id header when the header is not empty
\* and the server's requestId is not a string, attempt set to the attempt
\* number when the server's attempt is not a number, and every other field
\* unchanged.
C27_EnrichKeepsServerFields ==
    EnrichDone =>
        /\ ~isPlainObject(PayloadIn) => PayloadOut = PayloadIn
        /\ isPlainObject(PayloadIn) =>
             LET base == IF isPlainObject(MetadataIn) THEN MetadataIn ELSE EmptyObject IN
             /\ isPlainObject(PayloadOut)
             /\ SameExcept(PayloadIn, PayloadOut, { "metadata" })
             /\ isPlainObject(MetadataOut)
             /\ SameExcept(base, MetadataOut, { "requestId", "attempt" })
             /\ prop(MetadataOut, "requestId") =
                  IF prop(base, "requestId").t # "string" /\ IsSome(HeaderId) /\ HeaderId # Some("")
                     THEN JStr(Get(HeaderId))
                     ELSE prop(base, "requestId")
             /\ prop(MetadataOut, "attempt") =
                  IF prop(base, "attempt").t # "number"
                     THEN JNum(Get(fnArgs).attempt)
                     ELSE prop(base, "attempt")

\* the server set requestId and tool but no attempt: only attempt was added
C27_Witness ==
    /\ EnrichDone
    /\ HeaderId = Some("hdr-req")
    /\ Get(fnArgs).attempt = 2
    /\ PayloadIn = JObj([data |-> JStr("d"),
                         metadata |-> JObj([requestId |-> JStr("srv-req"), tool |-> JStr("planner")])])
    /\ PayloadOut = JObj([data |-> JStr("d"),
                          metadata |-> JObj([requestId |-> JStr("srv-req"), tool |-> JStr("planner"),
                                             attempt |-> JNum(2)])])

\* ---------------------------------------------------------------------
\* the backoff delay
\* ---------------------------------------------------------------------
Normalized == IsSome(fnResult)
Waited == IsSome(fnResult) /\ IsSome(Get(fnResult).wait)
GivenPolicy == Get(fnArgs).policy
Policy == Get(fnResult).policy
Wait == Get(Get(fnResult).wait)
\* E of attempt n: min(maxDelayMs, baseDelayMs * 2^(n-1)), by repeated doubling
RECURSIVE Doubled(_, _)
Doubled(ms, times) == IF times = 0 THEN ms ELSE Doubled(ms + ms, times - 1)
Expected == LET full == Doubled(Policy.baseDelayMs, Get(fnArgs).attempt - 1)
            IN  IF full > Policy.maxDelayMs THEN Policy.maxDelayMs ELSE full

\* C28: for integer policy values and every attempt n >= 1 the wait before
\* the next attempt is E + j with E = min(maxDelayMs, baseDelayMs * 2^(n-1))
\* and 0 <= j <= 20% of E, and the normalized policy has
\* 1 <= maxAttempts <= 10 and maxDelayMs >= baseDelayMs.
C28_BackoffDelay ==
    /\ Normalized =>
        /\ 1 <= Policy.maxAttempts
        /\ Policy.maxAttempts <= 10
        /\ Policy.maxDelayMs >= Policy.baseDelayMs
    /\ Waited =>
        /\ Wait - Expected >= 0
        /\ 5 * (Wait - Expected) <= Expected

\* a wait with jitter was computed for a third attempt under a policy whose
\* maxAttempts was out of range before normalizing
C28_Witness ==
    /\ Waited
    /\ Get(fnArgs).attempt = 3
    /\ GivenPolicy.maxAttempts = Some(25)
    /\ GivenPolicy.baseDelayMs = Some(40)
    /\ GivenPolicy.maxDelayMs = Some(300)
    /\ Expected = 160
    /\ Wait = 191

\* ---------------------------------------------------------------------
\* listDevices on answers of any shape
\* ---------------------------------------------------------------------
ListSettled == IsSome(fnResult)
HubAnswer == Get(fnArgs).response
HubData == member(HubAnswer, "data")
Listed == Get(fnResult).list
\* the devices array of the answer, empty when the answer has none
AnsweredEntries ==
    IF member(HubData, "devices").t = "array" THEN member(HubData, "devices").val ELSE <<>>
WellFormedEntry(item) == item.t = "object" /\ member(item, "deviceId").t = "string"
WellFormedIds ==
    LET kept == SelectSeq(AnsweredEntries, WellFormedEntry)
    IN  [i \in 1..Len(kept) |-> member(kept[i], "deviceId").val]
ListedIds == [i \in 1..Len(Listed.devices) |-> Listed.devices[i].deviceId]

\* C29: listDevices() never throws because of the shape of a successful hub
\* response: it returns online=false, deviceCount=0 and an empty list for
\* the missing or malformed parts, and leaves malformed device entries
\* (not objects, or without a string deviceId) out of the list.
C29_Original ==
    ListSettled =>
        /\ Get(fnResult).t = "return"
        /\ Listed.online = (member(HubData, "online") = JBool(TRUE))
        /\ Listed.deviceCount = (IF member(HubData, "deviceCount").t = "number"
                                    THEN member(HubData, "deviceCount").val ELSE 0)
        /\ ListedIds = WellFormedIds

\* ---------------------------------------------------------------------
\* the options of a streamed request
\* ---------------------------------------------------------------------
Prepared == IsSome(fnResult)
OptionsIn == Get(fnArgs).request.options
OptionsOut == Get(fnResult).request.options
UiIn == member(OptionsIn, "ui")
UiOut == member(OptionsOut, "ui")
EmitEventsSet == isPlainObject(OptionsOut) /\ isPlainObject(UiOut) /\ prop(UiOut, "emitEvents") = JBool(TRUE)
Supplied(x) == x # JUndefined
\* the caller's options other than ui come out as they went in
OtherOptionsKept == isPlainObject(OptionsIn) => SameExcept(OptionsIn, OptionsOut, { "ui" })
\* the caller's ui values other than emitEvents come out as they went in
OtherUiKept == isPlainObject(UiIn) => SameExcept(UiIn, UiOut, { "emitEvents" })

\* C30 as stated: with streaming on, prepareStreamRequest and
\* prepareScrapeStreamRequest set options.ui.emitEvents to true and no value
\* the caller supplied in options or in options.ui is dropped or replaced.
C30_Original ==
    Prepared =>
        /\ EmitEventsSet
        /\ OtherOptionsKept
        /\ OtherUiKept
        /\ Supplied(OptionsIn) /\ ~isPlainObject(OptionsIn) => OptionsOut = OptionsIn
        /\ Supplied(UiIn) /\ ~isPlainObject(UiIn) => UiOut = UiIn

\* C30: with streaming on, prepareStreamRequest and
\* prepareScrapeStreamRequest set options.ui.emitEvents to true; every other
\* field of a caller's options object and of a caller's options.ui object
\* is unchanged, and an options or options.ui value that is not a JSON
\* object is replaced by a new object holding nothing else.
C30_EmitEventsMerged ==
    Prepared =>
        /\ EmitEventsSet
        /\ OtherOptionsKept
        /\ OtherUiKept
        /\ ~isPlainObject(OptionsIn) => DOMAIN OptionsOut.val = { "ui" }
        /\ ~isPlainObject(UiIn) => DOMAIN UiOut.val = { "emitEvents" }

\* a caller's options with two fields beside ui, and a ui with two fields
\* beside an emitEvents of false, went through prepareStreamRequest
C30_Witness ==
    /\ Prepared
    /\ Get(fnArgs).request.op = "run"
    /\ isPlainObject(OptionsIn)
    /\ isPlainObject(UiIn)
    /\ prop(OptionsIn, "timeout") = JNum(30)
    /\ prop(OptionsIn, "model") = JStr("fast")
    /\ prop(UiIn, "emitEvents") = JBool(FALSE)
    /\ prop(UiIn, "theme") = JStr("dark")
    /\ prop(UiIn, "verbose") = JBool(FALSE)

====
